---- MODULE Spec2Model ----
(***************************************************************************)
(* Session, room-membership and history-loading coordinator of the chat    *)
(* backend (backend/sockets/chat.js with backend/utils/redisClient.js).    *)
(*                                                                         *)
(* Every handler is split at its awaits: one action per await, so that the *)
(* handlers of different connections (and the disconnect handler of a      *)
(* closed connection) interleave exactly where the event loop lets them.   *)
(* All connections modelled belong to ONE identity: the coordination keys  *)
(* connectedUser:<id> and userRoom:<id> are therefore single variables.    *)
(***************************************************************************)
EXTENDS Integers, Sequences, FiniteSets, TLC

----------------------------------------------------------------------------
(* Bounds of the model *)

\* client events (connect, disconnect, joinRoom, leaveRoom, room listing)
\* accepted in one behaviour
MaxOps == 4
\* server processes behind the load balancer
NumProcs == 2
\* messages persisted in one behaviour of the history specification
MaxMsgs == 4
\* loadMessages attempts followed in one behaviour of the paging specification
MaxTries == 6
\* fragments one behaviour lets the assistants stream
MaxChunks == 2
\* messages sent to one room when the recent-message cache is taken alone
MaxStored == 51
\* messages of the room whose read receipts are followed
MaxRead == 2
\* messages of the room whose reactions are followed
MaxReacted == 1

(* Program constants *)
BATCH_SIZE == 30
RECENT_MESSAGE_CACHE == 50
MAX_RETRIES == 3
\* the time to live of a streamingSession key, in seconds
STREAMING_TTL == 600

\* identities (user ids); the connections are those of TheUser
Users == {"u1", "u2"}
TheUser == "u1"

SocketIds == {"sA", "sB"}          \* socket.id values (20 random characters)
Procs == 1..NumProcs
\* Room ids are 24 hexadecimal characters; "42" stands for an id all of whose
\* characters are decimal digits (or digits around one 'e'), "r1" for the others.
Rooms == {"r1", "42"}
NoSuchRoom == "r9"                 \* an id no room document has
RoomArgs == Rooms \cup {NoSuchRoom}
NoKey == "<nil>"                   \* the key is not in the store
NoSocket == "<none>"

----------------------------------------------------------------------------
(* Values as JavaScript sees them, and the store's value conversion *)

Null == [t |-> "null", v |-> ""]
Str(s) == [t |-> "str", v |-> s]
Num(s) == [t |-> "num", v |-> s]

\* the strings JSON.parse accepts as a number
LooksNumeric(s) == s \in {"42"}

\* JSON.parse(value), falling back to the raw string when it throws
JSONParse(s) == IF LooksNumeric(s) THEN Num(s) ELSE Str(s)

\* RedisClient.set: String(value) of a string is the string itself
RedisSet(value) == value

\* RedisClient.get: null when absent, else JSON.parse with raw-string fallback
RedisGet(stored) == IF stored = NoKey THEN Null ELSE JSONParse(stored)

Truthy(x) == x.t # "null"

----------------------------------------------------------------------------
(* The store wrapper (RedisClient) over its three backings *)

\* MockRedisClient, a single ioredis client, an ioredis Cluster client
Backings == {"memory", "single", "cluster"}

\* the keys followed, and the cluster node that serves the slot of each
StoreKeys == {"room:list:a", "room:list:b", "userRoom:u1"}
NodeOf(k) == IF k = "room:list:b" THEN 2 ELSE 1
Nodes == {1, 2}

\* the glob patterns used, and the keys each matches
Patterns == {"room:list:*"}
KeyMatches(k, pattern) == pattern = "room:list:*" /\ k \in {"room:list:a", "room:list:b"}

\* the ways del is called: del(key), del(keys) with an array, del(...keys)
DelForms == {"one", "array", "spread"}
KeyLists == {<<"room:list:a">>, <<"room:list:a", "room:list:b">>}

Threw == [t |-> "throw", v |-> ""]
NoKeys == [k \in StoreKeys |-> NoKey]
KeySet(ks) == {ks[i] : i \in 1..Len(ks)}

\* RedisClient before connect(): client null
NotConnected ==
  [backing |-> "none", store |-> NoKeys, ideal |-> NoKeys, result |-> Null, want |-> Null]

\* RedisClient.setEx: on the mock it calls this.client.setex, a method
\* MockRedisClient does not define (it defines setEx), so the call throws;
\* the other backings store the string with its time to live
setEx(b, store, k, value) ==
  IF b = "memory"
    THEN [store |-> store, result |-> Threw]
    ELSE [store |-> [store EXCEPT ![k] = RedisSet(value)], result |-> Str("OK")]

\* RedisClient.del(key): only the first argument reaches the client. An
\* array is no key of the mock's Map; ioredis flattens it into the keys of
\* one DEL, which a cluster refuses when the keys lie in different slots
del(b, store, form, ks) ==
  LET gone == IF form = "array" THEN KeySet(ks) ELSE {ks[1]}
      without == [k \in StoreKeys |-> IF k \in gone THEN NoKey ELSE store[k]]
  IN IF form = "array" /\ b = "memory"
       THEN [store |-> store, result |-> Num("0")]
       ELSE IF b = "cluster" /\ Cardinality(gone) > 1
              THEN [store |-> store, result |-> Threw]
              ELSE [store |-> without, result |-> Null]

\* RedisClient.keys(pattern): the mock and a single node scan every key; a
\* cluster client sends KEYS to one node, which answers for its own slots
Keys(b, store, pattern, node) ==
  {k \in StoreKeys : /\ store[k] # NoKey
                     /\ KeyMatches(k, pattern)
                     /\ (b = "cluster" => NodeOf(k) = node)}

\* the primitives as the Coordination Store defines them, whatever the backing
IdealDel(store, ks) == [k \in StoreKeys |-> IF k \in KeySet(ks) THEN NoKey ELSE store[k]]
IdealKeys(store, pattern) == {k \in StoreKeys : store[k] # NoKey /\ KeyMatches(k, pattern)}

----------------------------------------------------------------------------
VARIABLES
  connectedUser,  \* store key connectedUser:<identity>: a socket id or NoKey
  userRoom,       \* store key userRoom:<identity>: a room id or NoKey
  roomList,       \* the room:list:* cache keys present in the store
  outdated,       \* history: the keys written before a later change of a member list
  st,             \* st[s]: "none" | "handshake" | "open" | "closed" | "refused"
  proc,           \* proc[s]: the server process that accepted s
  cred,           \* cred[s]: what the handshake of s carries
  pc,             \* pc[s]: position of the middleware / connection block of s
  timers,         \* pending duplicate-login timers [target, waiter]
  warned,         \* warned[s]: s was sent duplicate_login
  ended,          \* ended[s]: s was sent session_ended
  dreason,        \* dreason[s]: the reason given to s's disconnect handler
  dpc,            \* dpc[s]: position of s's disconnect handler
  dRoom,          \* dRoom[s]: roomId read by s's disconnect handler
  born,           \* born[s]: connect stamp of s
  unhandled,      \* history: a promise was rejected with no handler attached
  redisClient,    \* the store wrapper taken alone: its backing, the keys held, the last result
  ops,            \* client events accepted so far
  lookedOpen,     \* history: the sockets open when s made its middleware lookup
  takeovers,      \* history: [old, by] for every duplicate_login sent to old for by
  deleted,        \* history: deleted[s]: the presence value s's disconnect deleted
  participants,   \* participants[r]: the identity is in room r's participants
  subs,           \* subs[s]: the socket.io rooms s is subscribed to
  hpc,            \* hpc[s]: position of s's joinRoom / leaveRoom handler
  hroom,          \* hroom[s]: roomId argument of that handler
  hcur,           \* hcur[s]: currentRoom read by that handler
  hkeys,          \* hkeys[s]: keys read by leaveRoom's room:list:* scan
  bcast,          \* bcast[r][e]: events e emitted to room r so far
  direct,         \* direct[s][e]: events e emitted to socket s so far
  ignored,        \* history: [room, occupancy] of the last leaveRoom returned at its guard
  msgs,           \* the messages collection, in insertion order
  cache,          \* cache[r]: store key room:messages:<r>, a list or NoKey
  clock,          \* the wall clock new Date() reads
  page,           \* the result of the last loadMessages call
  reads,          \* the updateOne operations of bulkWrite calls the store has yet to apply
  retry,          \* store key messageLoadRetry:<room>:<identity>: [present, n]
  loading,        \* store key messageQueue:<room>:<identity> is present
  unlock,         \* pending timers that will delete messageQueue:<room>:<identity>
  stale,          \* requests whose retry delay began after the present messageQueue key was set
  fpc,            \* fpc[f]: position of fetchPreviousMessages request f
  fbefore,        \* fbefore[f]: the `before` argument of request f
  ferr,           \* ferr[f]: the error loadMessagesWithRetry of f has caught
  fcur,           \* fcur[f]: currentRetries read in the catch block of f
  tries,          \* history: tries[f]: loadMessages attempts made for f
  kinds,          \* history: kinds[f]: the ways the attempts of f failed
  loaded,         \* loaded[f]: previousMessagesLoaded events emitted for f
  errors,         \* errors[f]: error events emitted for f
  errmsg,         \* errmsg[f]: the message of the error event emitted for f
  during,         \* history: during[f]: f arrived while another request was in flight
  cpc,            \* cpc[h]: position of invocation h of the chatMessage handler
  croom,          \* croom[h]: room of the message being handled
  csock,          \* csock[h]: the connection the handler runs for
  ctext,          \* ctext[h]: content of the message being handled
  ctype,          \* ctype[h]: type of the message being handled
  cmsg,           \* cmsg[h]: _id of the message the handler has saved (0: none)
  cais,           \* cais[h]: assistant mentions still to be answered
  ccached,        \* ccached[h]: the cached list the handler has read
  acc,            \* acc[h]: accumulatedContent of the reply being generated
  csess,          \* csess[h]: what onChunk has read of the session, and its fragment
  sbuf,           \* sbuf[h]: the key streamingSession:<messageId> of h's reply
  reply,          \* history: the events broadcast for h's reply and the _id it saved
  mpc,            \* mpc[m]: position of invocation m of the markMessagesAsRead handler
  mroom,          \* mroom[m]: its roomId
  mids,           \* mids[m]: its messageIds
  muser,          \* muser[m]: socket.user.id of its connection
  kpc,            \* kpc[k]: position of invocation k of the messageReaction handler
  kuser,          \* kuser[k]: socket.user.id of its connection
  kid,            \* kid[k]: its messageId
  kemoji,         \* kemoji[k]: its reaction
  ktype,          \* ktype[k]: its type
  kdoc,           \* kdoc[k]: the reactions of the document it has loaded
  emitted,        \* history: _ids of the chat messages in the order of their `message` broadcasts
  streaming,      \* number of streamingSession:* keys in the store
  hmsg,           \* hmsg[s]: _id of the system message joinRoom / leaveRoom saved
  dmsg,           \* dmsg[s]: _id of the system message disconnect saved
  announced,      \* history: _ids carried by message / aiMessageComplete broadcasts
  refused         \* history: [sock, room] of the last send refused for membership

connVars == <<connectedUser, st, proc, cred, pc, timers, warned, ended, dreason,
              dpc, dRoom, born, unhandled, redisClient, ops, lookedOpen, takeovers, deleted>>
roomVars == <<userRoom, roomList, outdated, participants, subs, hpc, hroom, hcur, hkeys,
              bcast, direct, ignored>>
msgVars == <<msgs, cache, clock, page, reads>>
fetchVars == <<retry, loading, unlock, stale, fpc, fbefore, ferr, fcur, tries, kinds, loaded,
               errors, errmsg, during>>
markVars == <<mpc, mroom, mids, muser>>
reactVars == <<kpc, kuser, kid, kemoji, ktype, kdoc>>
chatRest == <<cpc, croom, csock, ctext, ctype, cmsg, cais, ccached, acc, csess, sbuf, reply,
             streaming, refused, emitted, markVars, reactVars>>
chatVars == <<chatRest, hmsg, dmsg, announced>>
vars == <<connVars, roomVars, msgVars, fetchVars, chatVars>>

----------------------------------------------------------------------------
(* Connection state *)

Creds == {"ok", "bad_token", "bad_session", "no_user"}
ClientReasons == {"transport close", "client namespace disconnect"}
ServerReason == "server namespace disconnect"

\* io.sockets.sockets.get(id) in the process of s: the socket named by the
\* value id, if that socket is connected to this process
LocalSocket(s, id) ==
  {o \in SocketIds : Str(o) = id /\ st[o] = "open" /\ proc[o] = proc[s]}

\* socket.disconnect(true) / a lost transport: the socket leaves its rooms
\* and its disconnect handler starts with the reason
Closed(f, s) == [f EXCEPT ![s] = "closed"]

\* the handshake: io.use runs up to its first await
Connect(s, p, k) ==
  /\ st[s] = "none"
  /\ ops < MaxOps
  /\ ops' = ops + 1
  /\ born' = [born EXCEPT ![s] = ops + 1]
  /\ proc' = [proc EXCEPT ![s] = p]
  /\ cred' = [cred EXCEPT ![s] = k]
  /\ IF k = "bad_token"
       THEN /\ st' = [st EXCEPT ![s] = "refused"]
            /\ pc' = [pc EXCEPT ![s] = "done"]
       ELSE /\ st' = [st EXCEPT ![s] = "handshake"]
            /\ pc' = [pc EXCEPT ![s] = "auth_lookup"]
  /\ UNCHANGED <<connectedUser, timers, warned, ended, dreason, dpc, dRoom,
                 lookedOpen, takeovers, deleted, unhandled, redisClient>>
  /\ UNCHANGED <<roomVars, msgVars>>
  /\ UNCHANGED <<fetchVars, chatVars>>

\* handleDuplicateLogin up to the timer: duplicate_login to the existing
\* socket, then a timer of DUPLICATE_LOGIN_TIMEOUT
WarnAndArm(o, s, waiter) ==
  /\ warned' = [warned EXCEPT ![o] = TRUE]
  /\ takeovers' = takeovers \cup {[old |-> o, by |-> s]}
  /\ timers' = timers \cup {[target |-> o, waiter |-> waiter]}

\* io.use: the presence lookup and, for a socket of this process, the takeover
AuthLookup(s) ==
  /\ pc[s] = "auth_lookup"
  /\ lookedOpen' = [lookedOpen EXCEPT ![s] = {o \in SocketIds : st[o] = "open"}]
  /\ LET existing == LocalSocket(s, RedisGet(connectedUser))
     IN IF existing # {}
          THEN /\ \E o \in existing : WarnAndArm(o, s, s)
               /\ pc' = [pc EXCEPT ![s] = "auth_grace"]
          ELSE /\ pc' = [pc EXCEPT ![s] = "auth_validate"]
               /\ UNCHANGED <<warned, takeovers, timers>>
  /\ UNCHANGED <<connectedUser, st, proc, cred, ended, dreason, dpc, dRoom,
                 born, unhandled, redisClient, ops, deleted>>
  /\ UNCHANGED <<roomVars, msgVars>>
  /\ UNCHANGED <<fetchVars, chatVars>>

\* the timer of a takeover fires: session_ended, disconnect(true), resolve
GraceTimeout(t) ==
  /\ t \in timers
  /\ timers' = timers \ {t}
  /\ IF st[t.target] = "open"
       THEN /\ ended' = [ended EXCEPT ![t.target] = TRUE]
            /\ st' = Closed(st, t.target)
            /\ dreason' = [dreason EXCEPT ![t.target] = ServerReason]
            /\ dpc' = [dpc EXCEPT ![t.target] = "d_get_presence"]
            /\ subs' = [subs EXCEPT ![t.target] = {}]
       ELSE UNCHANGED <<ended, st, dreason, dpc, subs>>
  /\ IF t.waiter # NoSocket
       THEN pc' = [pc EXCEPT ![t.waiter] = "auth_validate"]
       ELSE UNCHANGED pc
  /\ UNCHANGED <<connectedUser, proc, cred, warned, dRoom, born, unhandled, redisClient, ops,
                 lookedOpen, takeovers, deleted>>
  /\ UNCHANGED <<userRoom, roomList, outdated, participants, hpc, hroom, hcur, hkeys,
                 bcast, direct, ignored>>
  /\ UNCHANGED msgVars
  /\ UNCHANGED <<fetchVars, chatVars>>

\* io.use: session validation, user lookup, next(); the connection block
\* then runs up to its first await
AuthValidate(s) ==
  /\ pc[s] = "auth_validate"
  /\ IF cred[s] \in {"bad_session", "no_user"}
       THEN /\ st' = [st EXCEPT ![s] = "refused"]
            /\ pc' = [pc EXCEPT ![s] = "done"]
       ELSE /\ st' = [st EXCEPT ![s] = "open"]
            /\ pc' = [pc EXCEPT ![s] = "conn_lookup"]
  /\ UNCHANGED <<connectedUser, proc, cred, timers, warned, ended, dreason,
                 dpc, dRoom, born, unhandled, redisClient, ops, lookedOpen, takeovers, deleted>>
  /\ UNCHANGED <<roomVars, msgVars>>
  /\ UNCHANGED <<fetchVars, chatVars>>

\* connection block: the second presence lookup; a previous socket of this
\* process is warned and a timer armed, nothing is awaited
ConnLookup(s) ==
  /\ pc[s] = "conn_lookup"
  /\ LET previous == RedisGet(connectedUser)
         found == IF Truthy(previous) /\ previous # Str(s)
                    THEN LocalSocket(s, previous) ELSE {}
     IN IF found # {}
          THEN \E o \in found : WarnAndArm(o, s, NoSocket)
          ELSE UNCHANGED <<warned, takeovers, timers>>
  /\ pc' = [pc EXCEPT ![s] = "conn_write"]
  /\ UNCHANGED <<connectedUser, st, proc, cred, ended, dreason, dpc, dRoom,
                 born, unhandled, redisClient, ops, lookedOpen, deleted>>
  /\ UNCHANGED <<roomVars, msgVars>>
  /\ UNCHANGED <<fetchVars, chatVars>>

\* connection block: the presence write
ConnWrite(s) ==
  /\ pc[s] = "conn_write"
  /\ connectedUser' = RedisSet(s)
  /\ pc' = [pc EXCEPT ![s] = "ready"]
  /\ UNCHANGED <<st, proc, cred, timers, warned, ended, dreason, dpc, dRoom,
                 born, unhandled, redisClient, ops, lookedOpen, takeovers, deleted>>
  /\ UNCHANGED <<roomVars, msgVars>>
  /\ UNCHANGED <<fetchVars, chatVars>>

\* connection block: redisClient.get or redisClient.set rejects (the wrapper
\* rethrows what the client throws); the detached async block has no catch
ConnFails(s) ==
  /\ pc[s] \in {"conn_lookup", "conn_write"}
  /\ pc' = [pc EXCEPT ![s] = "ready"]
  /\ unhandled' = TRUE
  /\ UNCHANGED <<connectedUser, st, proc, cred, timers, warned, ended, dreason, dpc,
                 dRoom, born, redisClient, ops, lookedOpen, takeovers, deleted>>
  /\ UNCHANGED <<roomVars, msgVars>>
  /\ UNCHANGED <<fetchVars, chatVars>>

\* the client closes the connection or loses it
ClientDisconnect(s, why) ==
  /\ st[s] = "open"
  /\ ops < MaxOps
  /\ ops' = ops + 1
  /\ st' = Closed(st, s)
  /\ dreason' = [dreason EXCEPT ![s] = why]
  /\ dpc' = [dpc EXCEPT ![s] = "d_get_presence"]
  /\ subs' = [subs EXCEPT ![s] = {}]
  /\ UNCHANGED <<connectedUser, proc, cred, pc, timers, warned, ended, dRoom,
                 born, unhandled, redisClient, lookedOpen, takeovers, deleted>>
  /\ UNCHANGED <<userRoom, roomList, outdated, participants, hpc, hroom, hcur, hkeys,
                 bcast, direct, ignored>>
  /\ UNCHANGED msgVars
  /\ UNCHANGED <<fetchVars, chatVars>>

----------------------------------------------------------------------------
(* Messages, the recent-message cache and loadMessages *)

Min(a, b) == IF a < b THEN a ELSE b

\* Array.prototype.slice(0, n)
SliceFirst(q, n) == SubSeq(q, 1, Min(Len(q), n))

\* Array.prototype.slice(-n)
SliceLast(q, n) == SubSeq(q, IF Len(q) > n THEN Len(q) - n + 1 ELSE 1, Len(q))

\* the position of q[i] once q is in ascending timestamp order, equal
\* timestamps keeping their order
RankAsc(q, i) ==
  Cardinality({j \in 1..Len(q) : q[j].ts < q[i].ts \/ (q[j].ts = q[i].ts /\ j < i)}) + 1

\* Array.prototype.sort((a, b) => new Date(a.timestamp) - new Date(b.timestamp))
SortAsc(q) == [k \in 1..Len(q) |-> q[CHOOSE i \in 1..Len(q) : RankAsc(q, i) = k]]

\* the position of q[i] once q is in descending timestamp order, equal
\* timestamps keeping their order
RankDesc(q, i) ==
  Cardinality({j \in 1..Len(q) : q[j].ts > q[i].ts \/ (q[j].ts = q[i].ts /\ j < i)}) + 1

\* the pipeline stage { $sort: { timestamp: -1 } }
SortDesc(q) == [k \in 1..Len(q) |-> q[CHOOSE i \in 1..Len(q) : RankDesc(q, i) = k]]

\* new mongoose.Types.ObjectId(id), and the cast of a string by the schema
ObjectId(u) == <<"ObjectId", u>>

\* ObjectId.prototype.toString(), also taken by JSON.stringify
IdString(o) == IF Len(o) = 2 /\ o[1] = "ObjectId" THEN o[2] ELSE o

\* the reaction labels of the requests
Emojis == {"like", "wow"}

\* reactions: new Map(); a label without reactors is not a key of the map
NoReactions == [e \in Emojis |-> <<>>]

\* the reactions map as JSON carries it
ReactionsJSON(x) == [e \in Emojis |-> [k \in 1..Len(x[e]) |-> IdString(x[e][k])]]

\* JSON.stringify followed by JSON.parse: a Date comes back as an ISO string,
\* an ObjectId as its hexadecimal string
ToJSON(m) ==
  [m EXCEPT !.tsform = "iso",
            !.readers = [k \in 1..Len(@) |-> IdString(@[k])],
            !.reactions = ReactionsJSON(@)]

JSONList(q) == [i \in 1..Len(q) |-> ToJSON(q[i])]

\* new Message({room, type, timestamp: new Date()}) as the collection stores it
NewMessage(r, kind) ==
  [id |-> Len(msgs) + 1, room |-> r, kind |-> kind, ts |-> clock, tsform |-> "date",
   readers |-> <<>>, reactions |-> NoReactions]

\* a save that is acknowledged without the document reaching the collection
Persist_dropped(r, kind) ==
  /\ msgs' = msgs
  /\ clock' = clock + 1

\* message.save() / Message.create(): the document is in the collection
Persist(r, kind) ==
  /\ msgs' = Append(msgs, NewMessage(r, kind))
  /\ clock' = clock + 1

NoCache == [present |-> FALSE, list |-> <<>>]

\* await redisClient.get(`room:messages:${roomId}`) || []
CachedMessages(r) == IF cache[r].present THEN cache[r].list ELSE <<>>

\* sortedMessages[0]?.timestamp || null (0 stands for null)
OldestTimestamp(sorted) == IF sorted = <<>> THEN 0 ELSE sorted[1].ts

\* the cache branch is taken: no `before` and a non-empty cached list
CacheHit(r, before) == before = 0 /\ Len(CachedMessages(r)) > 0

\* loadMessages, cache branch
CachePage(r, limit) ==
  LET cachedMessages == CachedMessages(r)
      sortedMessages == IF Len(cachedMessages) > limit
                          THEN SliceLast(cachedMessages, limit)
                          ELSE cachedMessages
  IN [from |-> "cache",
      messages |-> sortedMessages,
      hasMore |-> Len(cachedMessages) > limit,
      oldestTimestamp |-> OldestTimestamp(sortedMessages)]

\* the $match stage: the room's messages, older than `before` when given
\* (isDeleted stays false: no handler calls softDelete)
Matching(r, before) ==
  SelectSeq(msgs, LAMBDA m : m.room = r /\ (before = 0 \/ m.ts < before))

\* Message.aggregate([...]): $match, $sort descending, $limit limit + 1
Aggregate(r, before, limit) == SliceFirst(SortDesc(Matching(r, before)), limit + 1)

\* loadMessages, store branch
StorePage(r, before, limit) ==
  LET messages == Aggregate(r, before, limit)
      sortedMessages == SortAsc(SliceFirst(messages, limit))
  IN [from |-> "store",
      messages |-> sortedMessages,
      hasMore |-> Len(messages) > limit,
      oldestTimestamp |-> OldestTimestamp(sortedMessages)]

\* the value loadMessages returns
loadMessages(r, before, limit) ==
  IF CacheHit(r, before) THEN CachePage(r, limit) ELSE StorePage(r, before, limit)

\* the cache after loadMessages: refreshed by the store branch of a load
\* without `before` that found messages
CacheAfterLoad(r, before, limit) ==
  LET messages == Aggregate(r, before, limit)
  IN IF ~CacheHit(r, before) /\ before = 0 /\ Len(messages) > 0
       THEN [cache EXCEPT ![r] =
               [present |-> TRUE,
                list |-> JSONList(SliceFirst(messages, RECENT_MESSAGE_CACHE))]]
       ELSE cache

NoPage == [from |-> "none", messages |-> <<>>, hasMore |-> FALSE, oldestTimestamp |-> 0]

\* loadMessages, store branch: Message.bulkWrite of one updateOne per message
\* of the page, not awaited; the cache branch has returned before
ReadUpdate(p) ==
  IF p.from = "store"
    THEN reads \cup {[id |-> p.messages[i].id, user |-> TheUser] : i \in 1..Len(p.messages)}
    ELSE reads

----------------------------------------------------------------------------
(* Events *)

RoomEvents == {"message", "participantsUpdate", "userLeft", "aiMessageStart",
               "aiMessageChunk", "aiMessageComplete", "aiMessageError",
               "messagesRead", "messageReactionUpdate"}
SocketEvents == {"joinRoomSuccess", "joinRoomError", "error"}

\* io.to(r).emit(e) / socket.to(r).emit(e) for each e of es, counted per room
EmitRoom(b, r, es) ==
  [x \in Rooms |-> [e \in RoomEvents |->
     IF x = r /\ e \in es THEN b[x][e] + 1 ELSE b[x][e]]]

\* socket.emit(e)
EmitSocket(d, s, e) == [d EXCEPT ![s][e] = @ + 1]

\* the socket.io rooms named by the JavaScript value x
RoomsNamed(x) == {r \in Rooms : Str(r) = x}

----------------------------------------------------------------------------
(* joinRoom *)

HandlerIdle(s) == st[s] = "open" /\ hpc[s] = "idle"

Finish(s) ==
  /\ hpc' = [hpc EXCEPT ![s] = "idle"]
  /\ hroom' = [hroom EXCEPT ![s] = NoSuchRoom]
  /\ hcur' = [hcur EXCEPT ![s] = Null]

\* the occupancy record names the requested room: currentRoom === roomId
AlreadyInRoom(currentRoom, roomId) == currentRoom = Str(roomId)

\* joinRoom up to the end of its occupancy lookup: success at once when the
\* record names the room, else socket.leave(currentRoom) when there is one
JoinRoom(s, r) ==
  /\ HandlerIdle(s)
  /\ ops < MaxOps
  /\ ops' = ops + 1
  /\ LET currentRoom == RedisGet(userRoom)
     IN IF AlreadyInRoom(currentRoom, r)
          THEN /\ direct' = EmitSocket(direct, s, "joinRoomSuccess")
               /\ UNCHANGED <<hpc, hroom, hcur, subs>>
          ELSE /\ hroom' = [hroom EXCEPT ![s] = r]
               /\ hcur' = [hcur EXCEPT ![s] = currentRoom]
               /\ IF Truthy(currentRoom)
                    THEN /\ subs' = [subs EXCEPT ![s] = @ \ RoomsNamed(currentRoom)]
                         /\ hpc' = [hpc EXCEPT ![s] = "j_del"]
                    ELSE /\ hpc' = [hpc EXCEPT ![s] = "j_update"]
                         /\ UNCHANGED subs
               /\ UNCHANGED direct
  /\ UNCHANGED <<connectedUser, st, proc, cred, pc, timers, warned, ended,
                 dreason, dpc, dRoom, born, unhandled, redisClient, lookedOpen, takeovers, deleted>>
  /\ UNCHANGED <<userRoom, roomList, outdated, participants, hkeys, bcast, ignored>>
  /\ UNCHANGED msgVars
  /\ UNCHANGED <<fetchVars, chatVars>>

\* joinRoom: the old occupancy record is deleted, userLeft goes to the old room
JoinDel(s) ==
  /\ hpc[s] = "j_del"
  /\ userRoom' = NoKey
  /\ bcast' = IF RoomsNamed(hcur[s]) = {} THEN bcast
              ELSE EmitRoom(bcast, CHOOSE r \in RoomsNamed(hcur[s]) : TRUE, {"userLeft"})
  /\ hpc' = [hpc EXCEPT ![s] = "j_update"]
  /\ UNCHANGED connVars
  /\ UNCHANGED <<roomList, outdated, participants, subs, hroom, hcur, hkeys, direct, ignored>>
  /\ UNCHANGED msgVars
  /\ UNCHANGED <<fetchVars, chatVars>>

\* joinRoom: Room.findByIdAndUpdate($addToSet), then socket.join(roomId);
\* a missing room throws into the catch block
JoinUpdate(s) ==
  /\ hpc[s] = "j_update"
  /\ IF hroom[s] \notin Rooms
       THEN /\ direct' = EmitSocket(direct, s, "joinRoomError")
            /\ Finish(s)
            /\ UNCHANGED <<participants, subs, outdated>>
       ELSE /\ participants' = [participants EXCEPT ![hroom[s]] = TRUE]
            /\ outdated' = IF participants[hroom[s]] THEN outdated ELSE roomList
            /\ subs' = IF st[s] = "open"
                         THEN [subs EXCEPT ![s] = @ \cup {hroom[s]}] ELSE subs
            /\ hpc' = [hpc EXCEPT ![s] = "j_set"]
            /\ UNCHANGED <<direct, hroom, hcur>>
  /\ UNCHANGED connVars
  /\ UNCHANGED <<userRoom, roomList, hkeys, bcast, ignored>>
  /\ UNCHANGED msgVars
  /\ UNCHANGED <<fetchVars, chatVars>>

\* joinRoom: the occupancy record is written
JoinSet(s) ==
  /\ hpc[s] = "j_set"
  /\ userRoom' = RedisSet(hroom[s])
  /\ hpc' = [hpc EXCEPT ![s] = "j_save"]
  /\ UNCHANGED connVars
  /\ UNCHANGED <<roomList, outdated, participants, subs, hroom, hcur, hkeys, bcast, direct, ignored>>
  /\ UNCHANGED msgVars
  /\ UNCHANGED <<fetchVars, chatVars>>

\* joinRoom: joinMessage.save()
JoinSave(s) ==
  /\ hpc[s] = "j_save"
  /\ Persist(hroom[s], "system")
  /\ hmsg' = [hmsg EXCEPT ![s] = NewMessage(hroom[s], "system").id]
  /\ hpc' = [hpc EXCEPT ![s] = "j_load"]
  /\ UNCHANGED connVars
  /\ UNCHANGED <<userRoom, roomList, outdated, participants, subs, hroom, hcur, hkeys,
                 bcast, direct, ignored>>
  /\ UNCHANGED <<cache, page, reads>>
  /\ UNCHANGED <<fetchVars, chatRest, dmsg, announced>>

\* joinRoom: the initial loadMessages and the three emits; a failed load
\* (timeout, store error) throws into the catch block
JoinLoad(s, ok) ==
  /\ hpc[s] = "j_load"
  /\ IF ok
       THEN /\ page' = loadMessages(hroom[s], 0, BATCH_SIZE)
            /\ reads' = ReadUpdate(page')
            /\ cache' = CacheAfterLoad(hroom[s], 0, BATCH_SIZE)
            /\ direct' = EmitSocket(direct, s, "joinRoomSuccess")
            /\ bcast' = EmitRoom(bcast, hroom[s], {"message", "participantsUpdate"})
            /\ announced' = announced \cup {hmsg[s]}
       ELSE /\ direct' = EmitSocket(direct, s, "joinRoomError")
            /\ UNCHANGED <<page, reads, cache, bcast, announced>>
  /\ Finish(s)
  /\ UNCHANGED connVars
  /\ UNCHANGED <<userRoom, roomList, outdated, participants, subs, hkeys, ignored>>
  /\ UNCHANGED <<msgs, clock>>
  /\ UNCHANGED <<fetchVars, chatRest, hmsg, dmsg>>

----------------------------------------------------------------------------
(* leaveRoom *)

\* the guard without its comparison: only an absent record stops the leave
NotInRoom_absentOnly(currentRoom, roomId) == ~Truthy(currentRoom)

\* the guard of leaveRoom: !currentRoom || currentRoom !== roomId
NotInRoom(currentRoom, roomId) == ~Truthy(currentRoom) \/ currentRoom # Str(roomId)

\* leaveRoom up to the end of its occupancy lookup: a call for a room the
\* occupancy record does not name returns at once
LeaveRoom(s, r) ==
  /\ HandlerIdle(s)
  /\ ops < MaxOps
  /\ ops' = ops + 1
  /\ IF NotInRoom(RedisGet(userRoom), r)
       THEN /\ ignored' = [room |-> r, occupancy |-> userRoom]
            /\ UNCHANGED <<hpc, hroom>>
       ELSE /\ hpc' = [hpc EXCEPT ![s] = "l_find"]
            /\ hroom' = [hroom EXCEPT ![s] = r]
            /\ UNCHANGED ignored
  /\ UNCHANGED <<connectedUser, st, proc, cred, pc, timers, warned, ended,
                 dreason, dpc, dRoom, born, unhandled, redisClient, lookedOpen, takeovers, deleted>>
  /\ UNCHANGED <<userRoom, roomList, outdated, participants, subs, hcur, hkeys, bcast, direct>>
  /\ UNCHANGED msgVars
  /\ UNCHANGED <<fetchVars, chatVars>>

\* leaveRoom: Room.findOne({_id, participants}), then socket.leave(roomId)
LeaveFind(s) ==
  /\ hpc[s] = "l_find"
  /\ IF hroom[s] \in Rooms /\ participants[hroom[s]]
       THEN /\ subs' = [subs EXCEPT ![s] = @ \ {hroom[s]}]
            /\ hpc' = [hpc EXCEPT ![s] = "l_del"]
            /\ UNCHANGED <<hroom, hcur>>
       ELSE /\ Finish(s)
            /\ UNCHANGED subs
  /\ UNCHANGED connVars
  /\ UNCHANGED <<userRoom, roomList, outdated, participants, hkeys, bcast, direct, ignored>>
  /\ UNCHANGED msgVars
  /\ UNCHANGED <<fetchVars, chatVars>>

\* leaveRoom: the occupancy record is deleted
LeaveDel(s) ==
  /\ hpc[s] = "l_del"
  /\ userRoom' = NoKey
  /\ hpc' = [hpc EXCEPT ![s] = "l_msg"]
  /\ UNCHANGED connVars
  /\ UNCHANGED <<roomList, outdated, participants, subs, hroom, hcur, hkeys, bcast, direct, ignored>>
  /\ UNCHANGED msgVars
  /\ UNCHANGED <<fetchVars, chatVars>>

\* leaveRoom: Message.create of the system message
LeaveMsg(s) ==
  /\ hpc[s] = "l_msg"
  /\ Persist(hroom[s], "system")
  /\ hmsg' = [hmsg EXCEPT ![s] = NewMessage(hroom[s], "system").id]
  /\ hpc' = [hpc EXCEPT ![s] = "l_pull"]
  /\ UNCHANGED connVars
  /\ UNCHANGED <<userRoom, roomList, outdated, participants, subs, hroom, hcur, hkeys,
                 bcast, direct, ignored>>
  /\ UNCHANGED <<cache, page, reads>>
  /\ UNCHANGED <<fetchVars, chatRest, dmsg, announced>>

\* leaveRoom: Room.findByIdAndUpdate($pull)
LeavePull(s) ==
  /\ hpc[s] = "l_pull"
  /\ participants' = [participants EXCEPT ![hroom[s]] = FALSE]
  /\ outdated' = IF participants[hroom[s]] THEN roomList ELSE outdated
  /\ hpc' = [hpc EXCEPT ![s] = "l_keys"]
  /\ UNCHANGED connVars
  /\ UNCHANGED <<userRoom, roomList, subs, hroom, hcur, hkeys, bcast, direct, ignored>>
  /\ UNCHANGED msgVars
  /\ UNCHANGED <<fetchVars, chatVars>>

\* the two emits that end leaveRoom
LeaveEmits(s) ==
  /\ bcast' = EmitRoom(bcast, hroom[s], {"message", "participantsUpdate"})
  /\ announced' = announced \cup {hmsg[s]}
  /\ Finish(s)

\* leaveRoom: redisClient.keys('room:list:*'); with no key the emits follow
LeaveKeys(s) ==
  /\ hpc[s] = "l_keys"
  /\ IF roomList # {}
       THEN /\ hkeys' = [hkeys EXCEPT ![s] = roomList]
            /\ hpc' = [hpc EXCEPT ![s] = "l_delkeys"]
            /\ UNCHANGED <<bcast, hroom, hcur, announced>>
       ELSE /\ LeaveEmits(s)
            /\ UNCHANGED hkeys
  /\ UNCHANGED connVars
  /\ UNCHANGED <<userRoom, roomList, outdated, participants, subs, direct, ignored>>
  /\ UNCHANGED msgVars
  /\ UNCHANGED <<fetchVars, chatRest, hmsg, dmsg>>

\* leaveRoom: redisClient.del(keys), then the emits
LeaveDelKeys(s) ==
  /\ hpc[s] = "l_delkeys"
  /\ roomList' = roomList \ hkeys[s]
  /\ outdated' = outdated \ hkeys[s]
  /\ hkeys' = [hkeys EXCEPT ![s] = {}]
  /\ LeaveEmits(s)
  /\ UNCHANGED connVars
  /\ UNCHANGED <<userRoom, participants, subs, direct, ignored>>
  /\ UNCHANGED msgVars
  /\ UNCHANGED <<fetchVars, chatRest, hmsg, dmsg>>

----------------------------------------------------------------------------
(* the room listing (HTTP GET /), which fills the room:list:* cache *)

ListKeys == {"room:list:0:10:createdAt:desc:"}

ListRooms(k) ==
  /\ ops < MaxOps
  /\ ops' = ops + 1
  /\ roomList' = roomList \cup {k}
  /\ UNCHANGED outdated
  /\ UNCHANGED <<connectedUser, st, proc, cred, pc, timers, warned, ended,
                 dreason, dpc, dRoom, born, unhandled, redisClient, lookedOpen, takeovers, deleted>>
  /\ UNCHANGED <<userRoom, participants, subs, hpc, hroom, hcur, hkeys, bcast, direct, ignored>>
  /\ UNCHANGED msgVars
  /\ UNCHANGED <<fetchVars, chatVars>>

\* the members of the set 'room:list:{all}:keys': addRoomListCacheKey is the
\* only writer of that set and no route calls it
RegisteredKeys == {}

\* invalidateRoomListCache: the keys the set names are deleted, if it names any
invalidateRoomListCache(keys) ==
  IF RegisteredKeys # {} THEN keys \ RegisteredKeys ELSE keys

\* POST /:roomId/join of the identity: an identity that is not yet in the
\* member list is pushed, the room saved and the room-list cache invalidated
HttpJoin(r) ==
  /\ IF participants[r]
       THEN UNCHANGED <<participants, roomList, outdated>>
       ELSE /\ participants' = [participants EXCEPT ![r] = TRUE]
            /\ roomList' = invalidateRoomListCache(roomList)
            /\ outdated' = invalidateRoomListCache(roomList)
  /\ UNCHANGED connVars
  /\ UNCHANGED <<userRoom, subs, hpc, hroom, hcur, hkeys, bcast, direct, ignored>>
  /\ UNCHANGED msgVars
  /\ UNCHANGED <<fetchVars, chatVars>>

----------------------------------------------------------------------------
(* disconnect *)

\* the presence record still names the disconnecting socket
StillHolder(redisSocketId, s) == redisSocketId = Str(s)

\* disconnect: the presence lookup
DiscGetPresence(s) ==
  /\ dpc[s] = "d_get_presence"
  /\ dpc' = [dpc EXCEPT ![s] =
       IF StillHolder(RedisGet(connectedUser), s) THEN "d_del_presence" ELSE "d_get_room"]
  /\ UNCHANGED <<connectedUser, st, proc, cred, pc, timers, warned, ended,
                 dreason, dRoom, born, unhandled, redisClient, ops, lookedOpen, takeovers, deleted>>
  /\ UNCHANGED <<roomVars, msgVars>>
  /\ UNCHANGED <<fetchVars, chatVars>>

\* disconnect: the presence record is deleted
DiscDelPresence(s) ==
  /\ dpc[s] = "d_del_presence"
  /\ connectedUser' = NoKey
  /\ deleted' = [deleted EXCEPT ![s] = connectedUser]
  /\ dpc' = [dpc EXCEPT ![s] = "d_get_room"]
  /\ UNCHANGED <<st, proc, cred, pc, timers, warned, ended, dreason, dRoom,
                 born, unhandled, redisClient, ops, lookedOpen, takeovers>>
  /\ UNCHANGED <<roomVars, msgVars>>
  /\ UNCHANGED <<fetchVars, chatVars>>

\* disconnect: the occupancy lookup
DiscGetRoom(s) ==
  /\ dpc[s] = "d_get_room"
  /\ dRoom' = [dRoom EXCEPT ![s] = RedisGet(userRoom)]
  /\ dpc' = [dpc EXCEPT ![s] = "d_del_room"]
  /\ UNCHANGED <<connectedUser, st, proc, cred, pc, timers, warned, ended,
                 dreason, born, unhandled, redisClient, ops, lookedOpen, takeovers, deleted>>
  /\ UNCHANGED <<roomVars, msgVars>>
  /\ UNCHANGED <<fetchVars, chatVars>>

\* the automatic leave is skipped for these reasons
SkipsAutoLeave(reason) == reason \in {"client namespace disconnect", "duplicate_login"}

\* disconnect: the occupancy record is deleted; the automatic leave follows
\* when a room was read and the reason does not exclude it
DiscDelRoom(s) ==
  /\ dpc[s] = "d_del_room"
  /\ userRoom' = NoKey
  /\ dpc' = [dpc EXCEPT ![s] = "d_keys"]
  /\ UNCHANGED <<connectedUser, st, proc, cred, pc, timers, warned, ended,
                 dreason, dRoom, born, unhandled, redisClient, ops, lookedOpen, takeovers, deleted>>
  /\ UNCHANGED <<roomList, outdated, participants, subs, hpc, hroom, hcur, hkeys, bcast, direct, ignored>>
  /\ UNCHANGED msgVars
  /\ UNCHANGED <<fetchVars, chatVars>>

\* where the handler goes on after the message-queue cleanup
AfterCleanup(s) ==
  IF Truthy(dRoom[s]) /\ ~SkipsAutoLeave(dreason[s]) THEN "d_leave_msg" ELSE "done"

\* disconnect: redisClient.keys('messageQueue:*:' + id)
DiscKeys(s) ==
  /\ dpc[s] = "d_keys"
  /\ dpc' = [dpc EXCEPT ![s] = IF loading THEN "d_del_queue" ELSE AfterCleanup(s)]
  /\ UNCHANGED <<connectedUser, st, proc, cred, pc, timers, warned, ended,
                 dreason, dRoom, born, unhandled, redisClient, ops, lookedOpen, takeovers, deleted>>
  /\ UNCHANGED <<roomVars, msgVars, fetchVars, chatVars>>

\* disconnect: the messageQueue key found is deleted
DiscDelQueue(s) ==
  /\ dpc[s] = "d_del_queue"
  /\ loading' = FALSE
  /\ stale' = {}
  /\ dpc' = [dpc EXCEPT ![s] = "d_del_retry"]
  /\ UNCHANGED <<connectedUser, st, proc, cred, pc, timers, warned, ended,
                 dreason, dRoom, born, unhandled, redisClient, ops, lookedOpen, takeovers, deleted>>
  /\ UNCHANGED <<retry, unlock, fpc, fbefore, ferr, fcur, tries, kinds, loaded,
                 errors, errmsg, during>>
  /\ UNCHANGED <<roomVars, msgVars, chatVars>>

\* disconnect: the messageLoadRetry key of the same room is deleted
DiscDelRetry(s) ==
  /\ dpc[s] = "d_del_retry"
  /\ retry' = [present |-> FALSE, n |-> 0]
  /\ dpc' = [dpc EXCEPT ![s] = AfterCleanup(s)]
  /\ UNCHANGED <<connectedUser, st, proc, cred, pc, timers, warned, ended,
                 dreason, dRoom, born, unhandled, redisClient, ops, lookedOpen, takeovers, deleted>>
  /\ UNCHANGED <<loading, unlock, fpc, fbefore, ferr, fcur, tries, kinds, loaded,
                 errors, errmsg, during>>
  /\ UNCHANGED <<roomVars, msgVars, chatVars>>
  /\ UNCHANGED stale

\* String(roomId): the room field of the system message of the automatic leave
RoomText(x) == IF x.t = "num" THEN "4.2e+1" ELSE x.v

\* disconnect: Message.create of the system message
DiscLeaveMsg(s) ==
  /\ dpc[s] = "d_leave_msg"
  /\ Persist(RoomText(dRoom[s]), "system")
  /\ dmsg' = [dmsg EXCEPT ![s] = NewMessage(RoomText(dRoom[s]), "system").id]
  /\ dpc' = [dpc EXCEPT ![s] = "d_pull"]
  /\ UNCHANGED <<connectedUser, st, proc, cred, pc, timers, warned, ended,
                 dreason, dRoom, born, unhandled, redisClient, ops, lookedOpen, takeovers, deleted>>
  /\ UNCHANGED roomVars
  /\ UNCHANGED <<cache, page, reads>>
  /\ UNCHANGED <<fetchVars, chatRest, hmsg, announced>>

\* disconnect: Room.findByIdAndUpdate($pull) and the two emits; a roomId that
\* is no string fails the cast and throws into the catch block
DiscPull(s) ==
  /\ dpc[s] = "d_pull"
  /\ IF RoomsNamed(dRoom[s]) # {}
       THEN LET r == CHOOSE x \in RoomsNamed(dRoom[s]) : TRUE
            IN /\ participants' = [participants EXCEPT ![r] = FALSE]
               /\ outdated' = IF participants[r] THEN roomList ELSE outdated
               /\ bcast' = EmitRoom(bcast, r, {"message", "participantsUpdate"})
               /\ announced' = announced \cup {dmsg[s]}
       ELSE UNCHANGED <<participants, outdated, bcast, announced>>
  /\ dpc' = [dpc EXCEPT ![s] = "done"]
  /\ UNCHANGED <<connectedUser, st, proc, cred, pc, timers, warned, ended,
                 dreason, dRoom, born, unhandled, redisClient, ops, lookedOpen, takeovers, deleted>>
  /\ UNCHANGED <<userRoom, roomList, subs, hpc, hroom, hcur, hkeys, direct, ignored>>
  /\ UNCHANGED msgVars
  /\ UNCHANGED <<fetchVars, chatRest, hmsg, dmsg>>

----------------------------------------------------------------------------
(* fetchPreviousMessages and loadMessagesWithRetry *)

\* the requests followed; all come from one connection, for one room
Requests == {"f1", "f2"}
FetchSocket == "sA"
FetchRoom == "r1"
\* the `before` arguments sent: the timestamp of the oldest message shown
FetchBefore == {2}

\* the ways one loadMessages call ends
Outcomes == {"ok", "timeout", "other"}

NoRetry == [present |-> FALSE, n |-> 0]

\* Number(await redisClient.get('messageLoadRetry:' + retryKey)): 0 when absent
RetryCount(x) == IF x.present THEN x.n ELSE 0

\* error.message of the error in hand
ErrorMessage(e) ==
  CASE e = "timeout" -> "Message loading timed out"
    [] e = "max" -> "max retries exceeded"
    [] e = "noaccess" -> "no access to the room"
    [] OTHER -> "store error"

InFlight(f) == fpc[f] \notin {"idle", "done"}

\* the finally block of fetchPreviousMessages: a timer of LOAD_DELAY that
\* deletes the messageQueue key
FetchFinally(f) ==
  /\ unlock' = unlock + 1
  /\ fpc' = [fpc EXCEPT ![f] = "done"]

\* the catch block of fetchPreviousMessages: socket.emit('error', LOAD_ERROR)
FetchCatch(f, e) ==
  /\ errors' = [errors EXCEPT ![f] = @ + 1]
  /\ errmsg' = [errmsg EXCEPT ![f] = ErrorMessage(e)]
  /\ FetchFinally(f)

\* fetchPreviousMessages arrives: Room.findOne({_id, participants})
FetchPrevious(f, before) ==
  /\ fpc[f] = "idle"
  /\ st[FetchSocket] = "open"
  /\ \A g \in Requests : (g = "f1" /\ f = "f2") => fpc[g] # "idle"
  /\ fbefore' = [fbefore EXCEPT ![f] = before]
  /\ during' = [during EXCEPT ![f] = \E g \in Requests \ {f} : InFlight(g)]
  /\ IF participants[FetchRoom]
       THEN /\ fpc' = [fpc EXCEPT ![f] = "f_guard"]
            /\ UNCHANGED <<errors, errmsg, unlock>>
       ELSE FetchCatch(f, "noaccess")
  /\ UNCHANGED <<retry, loading, ferr, fcur, tries, kinds, loaded>>
  /\ UNCHANGED <<connVars, roomVars, msgVars, chatVars>>
  /\ UNCHANGED stale

\* fetchPreviousMessages: the messageQueue lookup; a request that finds the
\* key returns without an event
FetchGuard(f) ==
  /\ fpc[f] = "f_guard"
  /\ IF loading
       THEN FetchFinally(f)
       ELSE /\ fpc' = [fpc EXCEPT ![f] = "f_set"]
            /\ UNCHANGED unlock
  /\ UNCHANGED <<retry, loading, fbefore, ferr, fcur, tries, kinds, loaded,
                 errors, errmsg, during>>
  /\ UNCHANGED <<connVars, roomVars, msgVars, chatVars>>
  /\ UNCHANGED stale

\* fetchPreviousMessages: the messageQueue key is set (time-to-live 1 s),
\* messageLoadStart is emitted and loadMessagesWithRetry is called
FetchSet(f) ==
  /\ fpc[f] = "f_set"
  /\ loading' = TRUE
  /\ stale' = {}
  /\ fpc' = [fpc EXCEPT ![f] = "l_read"]
  /\ UNCHANGED <<retry, unlock, fbefore, ferr, fcur, tries, kinds, loaded,
                 errors, errmsg, during>>
  /\ UNCHANGED <<connVars, roomVars, msgVars, chatVars>>

\* loadMessages calls made so far
TotalTries == tries["f1"] + tries["f2"]

\* loadMessagesWithRetry: the counter check, then the loadMessages call
RetryRead(f) ==
  /\ fpc[f] = "l_read"
  /\ IF RetryCount(retry) >= MAX_RETRIES
       THEN /\ ferr' = [ferr EXCEPT ![f] = "max"]
            /\ fpc' = [fpc EXCEPT ![f] = "l_catch"]
            /\ UNCHANGED tries
       ELSE /\ TotalTries < MaxTries
            /\ tries' = [tries EXCEPT ![f] = @ + 1]
            /\ fpc' = [fpc EXCEPT ![f] = "l_load"]
            /\ UNCHANGED ferr
  /\ UNCHANGED <<retry, loading, unlock, fbefore, fcur, kinds, loaded, errors,
                 errmsg, during>>
  /\ UNCHANGED <<connVars, roomVars, msgVars, chatVars>>
  /\ UNCHANGED stale

\* loadMessagesWithRetry: loadMessages returns or throws
RetryLoad(f, out) ==
  /\ fpc[f] = "l_load"
  /\ IF out = "ok"
       THEN /\ page' = loadMessages(FetchRoom, fbefore[f], BATCH_SIZE)
            /\ reads' = ReadUpdate(page')
            /\ cache' = CacheAfterLoad(FetchRoom, fbefore[f], BATCH_SIZE)
            /\ fpc' = [fpc EXCEPT ![f] = "l_del"]
            /\ UNCHANGED <<ferr, kinds>>
       ELSE /\ ferr' = [ferr EXCEPT ![f] = out]
            /\ kinds' = [kinds EXCEPT ![f] = @ \cup {out}]
            /\ fpc' = [fpc EXCEPT ![f] = "l_catch"]
            /\ UNCHANGED <<page, reads, cache>>
  /\ UNCHANGED <<retry, loading, unlock, fbefore, fcur, tries, loaded, errors,
                 errmsg, during>>
  /\ UNCHANGED <<msgs, clock>>
  /\ UNCHANGED <<connVars, roomVars, chatVars>>
  /\ UNCHANGED stale

\* loadMessagesWithRetry: the store deletes the counter
RetryDone(f) ==
  /\ fpc[f] = "l_del"
  /\ retry' = NoRetry
  /\ fpc' = [fpc EXCEPT ![f] = "l_return"]
  /\ UNCHANGED <<loading, unlock, stale, fbefore, ferr, fcur, tries, kinds, loaded,
                 errors, errmsg, during>>
  /\ UNCHANGED <<connVars, roomVars, msgVars, chatVars>>

\* loadMessagesWithRetry resumes after the del and returns the result;
\* fetchPreviousMessages emits previousMessagesLoaded
RetryReturn(f) ==
  /\ fpc[f] = "l_return"
  /\ loaded' = [loaded EXCEPT ![f] = @ + 1]
  /\ FetchFinally(f)
  /\ UNCHANGED <<retry, loading, stale, fbefore, ferr, fcur, tries, kinds, errors,
                 errmsg, during>>
  /\ UNCHANGED <<connVars, roomVars, msgVars, chatVars>>

\* loadMessagesWithRetry, catch block: the counter is read again
RetryCatch(f) ==
  /\ fpc[f] = "l_catch"
  /\ fcur' = [fcur EXCEPT ![f] = RetryCount(retry)]
  /\ fpc' = [fpc EXCEPT ![f] =
       IF RetryCount(retry) < MAX_RETRIES THEN "l_set" ELSE "l_giveup"]
  /\ UNCHANGED <<retry, loading, unlock, fbefore, ferr, tries, kinds, loaded,
                 errors, errmsg, during>>
  /\ UNCHANGED <<connVars, roomVars, msgVars, chatVars>>
  /\ UNCHANGED stale

\* loadMessagesWithRetry, catch block: the counter is set to currentRetries + 1
RetrySet(f) ==
  /\ fpc[f] = "l_set"
  /\ retry' = [present |-> TRUE, n |-> fcur[f] + 1]
  /\ fpc' = [fpc EXCEPT ![f] = "l_delay"]
  /\ stale' = IF loading THEN stale \cup {f} ELSE stale
  /\ ferr' = [ferr EXCEPT ![f] = "none"]
  /\ fcur' = [fcur EXCEPT ![f] = 0]
  /\ UNCHANGED <<loading, unlock, fbefore, tries, kinds, loaded,
                 errors, errmsg, during>>
  /\ UNCHANGED <<connVars, roomVars, msgVars, chatVars>>

\* loadMessagesWithRetry: the delay (2 s at least) is over, the function calls
\* itself; a messageQueue key (time-to-live 1 s) that was there when the delay
\* began has run out
RetryDelay(f) ==
  /\ fpc[f] = "l_delay"
  /\ fpc' = [fpc EXCEPT ![f] = "l_read"]
  /\ IF f \in stale
       THEN loading' = FALSE /\ stale' = {}
       ELSE UNCHANGED <<loading, stale>>
  /\ UNCHANGED <<retry, unlock, fbefore, ferr, fcur, tries, kinds,
                 loaded, errors, errmsg, during>>
  /\ UNCHANGED <<connVars, roomVars, msgVars, chatVars>>

\* giving up without the del: the counter stays at MAX_RETRIES
RetryGiveUp_keepsCounter(f) ==
  /\ fpc[f] = "l_giveup"
  /\ FetchCatch(f, ferr[f])
  /\ ferr' = [ferr EXCEPT ![f] = "none"]
  /\ fcur' = [fcur EXCEPT ![f] = 0]
  /\ UNCHANGED <<retry, loading, fbefore, tries, kinds, loaded, during>>
  /\ UNCHANGED <<connVars, roomVars, msgVars, chatVars>>
  /\ UNCHANGED stale

\* loadMessagesWithRetry gives up: the counter is deleted and the error
\* rethrown into the catch block of fetchPreviousMessages
RetryGiveUp(f) ==
  /\ fpc[f] = "l_giveup"
  /\ retry' = NoRetry
  /\ FetchCatch(f, ferr[f])
  /\ ferr' = [ferr EXCEPT ![f] = "none"]
  /\ fcur' = [fcur EXCEPT ![f] = 0]
  /\ UNCHANGED <<loading, fbefore, tries, kinds, loaded, during>>
  /\ UNCHANGED <<connVars, roomVars, msgVars, chatVars>>
  /\ UNCHANGED stale

\* a timer of a finally block fires: the messageQueue key is deleted
UnlockTimer ==
  /\ unlock > 0
  /\ unlock' = unlock - 1
  /\ loading' = FALSE
  /\ stale' = {}
  /\ UNCHANGED <<retry, fpc, fbefore, ferr, fcur, tries, kinds, loaded, errors,
                 errmsg, during>>
  /\ UNCHANGED <<connVars, roomVars, msgVars, chatVars>>

\* the timer of a finally block fires and its redisClient.del rejects: the
\* timer's async callback has no catch
UnlockFails ==
  /\ unlock > 0
  /\ unlock' = unlock - 1
  /\ unhandled' = TRUE
  /\ UNCHANGED <<retry, loading, stale, fpc, fbefore, ferr, fcur, tries, kinds, loaded,
                 errors, errmsg, during>>
  /\ UNCHANGED <<connectedUser, st, proc, cred, pc, timers, warned, ended, dreason, dpc,
                 dRoom, born, redisClient, ops, lookedOpen, takeovers, deleted>>
  /\ UNCHANGED <<roomVars, msgVars, chatVars>>

\* the time-to-live (1 s) of the messageQueue key runs out
GuardExpire ==
  /\ loading
  /\ loading' = FALSE
  /\ stale' = {}
  /\ UNCHANGED <<retry, unlock, fpc, fbefore, ferr, fcur, tries, kinds, loaded,
                 errors, errmsg, during>>
  /\ UNCHANGED <<connVars, roomVars, msgVars, chatVars>>

----------------------------------------------------------------------------
(* chatMessage and the assistant's reply *)

\* A content is a string, kept as the list of its tokens: a word, a blank, or
\* a mention of an assistant
NoContent == <<>>

\* the fragments the generation streams
Fragments == {"re", "ply"}

\* no reply of an assistant has been started by the invocation
NoReply == [events |-> <<>>, chunks |-> <<>>, saved |-> 0]

\* onChunk has not read the session
NoSession == [read |-> FALSE, fragment |-> "none"]

\* invocations of the chatMessage handler that can be in progress together
Handlers == {"c1", "c2"}

\* an invocation is counted as c2 only while c1 is in progress
FreeSlot(h) == h = "c1" \/ cpc["c1"] # "idle"
Contents == {<<"hi">>, <<" ">>, <<"@wayneAI", " ", "hi">>, <<"@wayneAI">>,
             <<"@wayneAI", " ", "@consultingAI">>}
Types == {"text", "file", "poll"}

\* the messageData of the sends: a text of every content, a file message and
\* a message of a type the handler does not know
Sends ==
  {[type |-> "text", content |-> c] : c \in Contents}
    \cup {[type |-> t, content |-> <<"hi">>] : t \in Types \ {"text"}}

\* the sends of two invocations in progress together: a text, a text that
\* mentions an assistant, and a file message
Sends2 ==
  {[type |-> "text", content |-> c] : c \in {<<"hi">>, <<"@wayneAI">>}}
    \cup {[type |-> "file", content |-> <<"hi">>]}

\* the send that asks an assistant
Mentions == {[type |-> "text", content |-> <<"@wayneAI", " ", "hi">>]}

RECURSIVE TrimStart(_)
TrimStart(q) == IF q # <<>> /\ Head(q) = " " THEN TrimStart(Tail(q)) ELSE q

RECURSIVE TrimEnd(_)
TrimEnd(q) ==
  IF q # <<>> /\ q[Len(q)] = " " THEN TrimEnd(SubSeq(q, 1, Len(q) - 1)) ELSE q

\* String.prototype.trim()
Trim(q) == TrimEnd(TrimStart(q))

\* a match of /@(wayneAI|consultingAI)\b/
IsMention(token) == token \in {"@wayneAI", "@consultingAI"}

AiName(token) == IF token = "@wayneAI" THEN "wayneAI" ELSE "consultingAI"

\* Array.from(new Set(...)): each entry once, in the order of first appearance
RECURSIVE Distinct(_)
Distinct(q) ==
  IF q = <<>> THEN <<>>
  ELSE LET d == Distinct(SubSeq(q, 1, Len(q) - 1))
       IN IF \E i \in 1..Len(d) : d[i] = q[Len(q)] THEN d ELSE Append(d, q[Len(q)])

extractAIMentions(content) ==
  LET found == SelectSeq(content, IsMention)
  IN Distinct([i \in 1..Len(found) |-> AiName(found[i])])

\* content.replace(new RegExp(`@${ai}\\b`, 'g'), '').trim()
Query(content, ai) == Trim(SelectSeq(content, LAMBDA t : ~(IsMention(t) /\ AiName(t) = ai)))

\* the document a chatMessage or an assistant's completion stores
Document(r, kind, content) ==
  [id |-> Len(msgs) + 1, room |-> r, kind |-> kind, ts |-> clock, tsform |-> "date",
   readers |-> <<>>, reactions |-> NoReactions, content |-> content]

\* the membership lookup without its participants condition: Room.findOne({_id: room})
IsParticipant_anyRoom(r) == r \in Rooms

\* Room.findOne({_id: room, participants: socket.user.id}) finds the room
IsParticipant(r) == r \in Rooms /\ participants[r]

ChatFinish(h) ==
  /\ cpc' = [cpc EXCEPT ![h] = "idle"]
  /\ croom' = [croom EXCEPT ![h] = NoSuchRoom]
  /\ ctext' = [ctext EXCEPT ![h] = NoContent]
  /\ ctype' = [ctype EXCEPT ![h] = "none"]
  /\ cmsg' = [cmsg EXCEPT ![h] = 0]
  /\ cais' = [cais EXCEPT ![h] = <<>>]
  /\ ccached' = [ccached EXCEPT ![h] = <<>>]
  /\ csock' = [csock EXCEPT ![h] = NoSocket]
  /\ acc' = [acc EXCEPT ![h] = <<>>]
  /\ reply' = [reply EXCEPT ![h] = NoReply]

\* what the handlers of chatMessage leave alone in the room state
roomRest == <<userRoom, roomList, outdated, participants, subs, hpc, hroom, hcur, hkeys, ignored>>

\* chatMessage up to the end of its membership lookup, as invocation h of the
\* handler on connection s; without the room the handler throws into its
\* catch block, which emits `error` to the socket
ChatMessage(h, s, r, type, content) ==
  /\ st[s] = "open"
  /\ cpc[h] = "idle"
  /\ FreeSlot(h)
  /\ ops < MaxOps
  /\ ops' = ops + 1
  /\ IF IsParticipant(r)
       THEN /\ cpc' = [cpc EXCEPT ![h] = "c_session"]
            /\ croom' = [croom EXCEPT ![h] = r]
            /\ ctext' = [ctext EXCEPT ![h] = content]
            /\ ctype' = [ctype EXCEPT ![h] = type]
            /\ csock' = [csock EXCEPT ![h] = s]
            /\ UNCHANGED <<direct, refused>>
       ELSE /\ direct' = EmitSocket(direct, s, "error")
            /\ refused' = [sock |-> s, room |-> r]
            /\ UNCHANGED <<cpc, croom, csock, ctext, ctype>>
  /\ UNCHANGED <<connectedUser, st, proc, cred, pc, timers, warned, ended,
                 dreason, dpc, dRoom, born, unhandled, redisClient, lookedOpen, takeovers, deleted>>
  /\ UNCHANGED <<roomRest, bcast>>
  /\ UNCHANGED <<msgVars, fetchVars>>
  /\ UNCHANGED <<cmsg, cais, ccached, acc, csess, sbuf, reply, streaming, emitted, markVars, reactVars, hmsg, dmsg, announced>>

\* chatMessage: SessionService.validateSession, extractAIMentions and the
\* switch on the type; a text whose trimmed content is empty returns silently
ChatSession(h, valid) ==
  /\ cpc[h] = "c_session"
  /\ IF ~valid \/ ctype[h] \notin {"text", "file"}
       THEN /\ direct' = EmitSocket(direct, csock[h], "error")
            /\ ChatFinish(h)
       ELSE IF ctype[h] = "text" /\ Trim(ctext[h]) = <<>>
       THEN /\ ChatFinish(h)
            /\ UNCHANGED direct
       ELSE /\ cais' = [cais EXCEPT ![h] = extractAIMentions(ctext[h])]
            /\ cpc' = [cpc EXCEPT ![h] = IF ctype[h] = "file" THEN "c_file" ELSE "c_save"]
            /\ UNCHANGED <<direct, croom, csock, ctext, ctype, cmsg, ccached, acc, reply>>
  /\ UNCHANGED <<connVars, roomRest, bcast, msgVars, fetchVars>>
  /\ UNCHANGED <<csess, sbuf, streaming, refused, emitted, markVars, reactVars, hmsg, dmsg, announced>>

\* chatMessage, type file: File.findOne({_id, user}); without fileData or
\* without the file the handler throws
ChatFile(h, found) ==
  /\ cpc[h] = "c_file"
  /\ IF found
       THEN /\ cpc' = [cpc EXCEPT ![h] = "c_save"]
            /\ UNCHANGED <<direct, croom, csock, ctext, ctype, cmsg, cais, ccached, acc, reply>>
       ELSE /\ direct' = EmitSocket(direct, csock[h], "error")
            /\ ChatFinish(h)
  /\ UNCHANGED <<connVars, roomRest, bcast, msgVars, fetchVars>>
  /\ UNCHANGED <<csess, sbuf, streaming, refused, emitted, markVars, reactVars, hmsg, dmsg, announced>>

\* chatMessage: message.save(); a text is stored with its trimmed content
ChatSave(h) ==
  /\ cpc[h] = "c_save"
  /\ msgs' = Append(msgs, Document(croom[h], ctype[h],
                IF ctype[h] = "text" THEN Trim(ctext[h]) ELSE ctext[h]))
  /\ clock' = clock + 1
  /\ cmsg' = [cmsg EXCEPT ![h] = Len(msgs) + 1]
  /\ cpc' = [cpc EXCEPT ![h] = "c_get"]
  /\ UNCHANGED <<connVars, roomVars, fetchVars>>
  /\ UNCHANGED <<cache, page, reads>>
  /\ UNCHANGED <<croom, csock, ctext, ctype, cais, ccached, acc, csess, sbuf, reply, streaming, refused, emitted, markVars, reactVars, hmsg, dmsg, announced>>

\* the list read from room:messages:<room> with the document pushed onto it,
\* cut to its last RECENT_MESSAGE_CACHE entries and stored
CacheAppend(r, cached, m) ==
  [cache EXCEPT ![r] =
     [present |-> TRUE,
      list |-> SliceLast(JSONList(Append(cached, m)), RECENT_MESSAGE_CACHE)]]

\* chatMessage: the populate aggregation of the saved document, then
\* redisClient.get(cacheKey) || []
ChatCacheGet(h) ==
  /\ cpc[h] = "c_get"
  /\ ccached' = [ccached EXCEPT ![h] = CachedMessages(croom[h])]
  /\ cpc' = [cpc EXCEPT ![h] = "c_set"]
  /\ UNCHANGED <<connVars, roomVars, msgVars, fetchVars>>
  /\ UNCHANGED <<croom, csock, ctext, ctype, cmsg, cais, acc, csess, sbuf, reply, streaming, refused, emitted, markVars, reactVars, hmsg, dmsg, announced>>

\* the next assistant to answer, or the end of the handler
AfterReply(h, left) ==
  /\ cais' = [cais EXCEPT ![h] = left]
  /\ cpc' = [cpc EXCEPT ![h] = IF left = <<>> THEN "c_activity" ELSE "a_session"]

\* chatMessage: redisClient.setEx(cacheKey, ...), then the `message` broadcast
ChatCacheSet(h) ==
  /\ cpc[h] = "c_set"
  /\ cache' = CacheAppend(croom[h], ccached[h], msgs[cmsg[h]])
  /\ bcast' = EmitRoom(bcast, croom[h], {"message"})
  /\ announced' = announced \cup {cmsg[h]}
  /\ emitted' = Append(emitted, cmsg[h])
  /\ AfterReply(h, cais[h])
  /\ UNCHANGED <<connVars, roomRest, direct, fetchVars>>
  /\ UNCHANGED <<msgs, clock, page, reads>>
  /\ UNCHANGED <<croom, csock, ctext, ctype, cmsg, ccached, acc, csess, sbuf, reply, streaming, refused, markVars, reactVars, hmsg, dmsg>>

\* no streamingSession:<messageId> key
NoBuffer == [present |-> FALSE, ttl |-> 0, content |-> <<>>]

\* a write of the session without a time to live
BufferWrite_noExpiry(content) == [present |-> TRUE, ttl |-> 0, content |-> content]

\* redisClient.setEx('streamingSession:' + messageId, 600, JSON.stringify(session))
BufferWrite(content) == [present |-> TRUE, ttl |-> STREAMING_TTL, content |-> content]

\* accumulatedContent = chunk.currentChunk
Accumulate_overwrite(content, fragment) == <<fragment>>

\* accumulatedContent += chunk.currentChunk
Accumulate(content, fragment) == Append(content, fragment)

\* io.to(room).emit(e, {messageId, ...}) entered in the history of the reply
ReplyEvent(h, e) == [reply EXCEPT ![h].events = Append(@, e)]

\* the streamingSession keys in the store
Streaming(b) == Cardinality({h \in Handlers : b[h].present})

\* handleAIResponse: the streamingSession key is written, aiMessageStart is
\* broadcast and aiService.generateResponse is called
AiSession(h) ==
  /\ cpc[h] = "a_session"
  /\ sbuf' = [sbuf EXCEPT ![h] = BufferWrite(<<>>)]
  /\ streaming' = Streaming(sbuf')
  /\ acc' = [acc EXCEPT ![h] = <<>>]
  /\ reply' = [reply EXCEPT ![h] = [events |-> <<"aiMessageStart">>, chunks |-> <<>>, saved |-> 0]]
  /\ bcast' = EmitRoom(bcast, croom[h], {"aiMessageStart"})
  /\ cpc' = [cpc EXCEPT ![h] = "a_generate"]
  /\ UNCHANGED <<connVars, roomRest, direct, msgVars, fetchVars>>
  /\ UNCHANGED <<croom, csock, ctext, ctype, cmsg, cais, ccached, csess, refused, emitted, markVars, reactVars, hmsg, dmsg, announced>>

\* onChunk: the fragment is added to accumulatedContent and the session is
\* read
AiChunk(h, fragment) ==
  /\ cpc[h] = "a_generate"
  /\ Len(reply[h].chunks) < MaxChunks
  /\ acc' = [acc EXCEPT ![h] = Accumulate(acc[h], fragment)]
  /\ csess' = [csess EXCEPT ![h] = [read |-> sbuf[h].present, fragment |-> fragment]]
  /\ cpc' = [cpc EXCEPT ![h] = "a_chunk"]
  /\ UNCHANGED <<connVars, roomVars, msgVars, fetchVars>>
  /\ UNCHANGED <<croom, csock, ctext, ctype, cmsg, cais, ccached, sbuf, reply, streaming, refused, emitted, markVars, reactVars, hmsg, dmsg, announced>>

\* onChunk: the session that was read is written back with the accumulated
\* content, and aiMessageChunk is broadcast
AiChunkSet(h) ==
  /\ cpc[h] = "a_chunk"
  /\ sbuf' = IF csess[h].read THEN [sbuf EXCEPT ![h] = BufferWrite(acc[h])] ELSE sbuf
  /\ streaming' = Streaming(sbuf')
  /\ reply' = [reply EXCEPT ![h].events = Append(@, "aiMessageChunk"),
                            ![h].chunks = Append(@, [currentChunk |-> csess[h].fragment,
                                                     fullContent |-> acc[h]])]
  /\ bcast' = EmitRoom(bcast, croom[h], {"aiMessageChunk"})
  /\ csess' = [csess EXCEPT ![h] = NoSession]
  /\ cpc' = [cpc EXCEPT ![h] = "a_generate"]
  /\ UNCHANGED <<connVars, roomRest, direct, msgVars, fetchVars>>
  /\ UNCHANGED <<croom, csock, ctext, ctype, cmsg, cais, ccached, acc, refused, emitted, markVars, reactVars, hmsg, dmsg, announced>>

\* the time to live of streamingSession:<messageId> runs out
BufferExpire(h) ==
  /\ sbuf[h].present
  /\ sbuf[h].ttl > 0
  /\ sbuf' = [sbuf EXCEPT ![h] = NoBuffer]
  /\ streaming' = Streaming(sbuf')
  /\ UNCHANGED <<connVars, roomVars, msgVars, fetchVars>>
  /\ UNCHANGED <<cpc, croom, csock, ctext, ctype, cmsg, cais, ccached, acc, csess, reply, refused, emitted, markVars, reactVars, hmsg, dmsg, announced>>

\* onComplete: the streamingSession key is deleted
AiComplete(h) ==
  /\ cpc[h] = "a_generate"
  /\ sbuf' = [sbuf EXCEPT ![h] = NoBuffer]
  /\ streaming' = Streaming(sbuf')
  /\ cpc' = [cpc EXCEPT ![h] = "a_save"]
  /\ UNCHANGED <<connVars, roomVars, msgVars, fetchVars>>
  /\ UNCHANGED <<croom, csock, ctext, ctype, cmsg, cais, ccached, acc, csess, reply, refused, emitted, markVars, reactVars, hmsg, dmsg, announced>>

\* onComplete: Message.create({type: 'ai', ...}); when it fails onComplete
\* throws and generateResponse rejects
AiSave(h, ok) ==
  /\ cpc[h] = "a_save"
  /\ IF ok
       THEN /\ msgs' = Append(msgs, Document(croom[h], "ai", <<"reply">>))
            /\ clock' = clock + 1
            /\ cmsg' = [cmsg EXCEPT ![h] = Len(msgs) + 1]
            /\ reply' = [reply EXCEPT ![h].saved = Len(msgs) + 1]
            /\ cpc' = [cpc EXCEPT ![h] = "a_get"]
       ELSE /\ cpc' = [cpc EXCEPT ![h] = "a_catch"]
            /\ UNCHANGED <<msgs, clock, cmsg, reply>>
  /\ UNCHANGED <<connVars, roomVars, fetchVars>>
  /\ UNCHANGED <<cache, page, reads>>
  /\ UNCHANGED <<croom, csock, ctext, ctype, cais, ccached, acc, csess, sbuf, streaming, refused, emitted, markVars, reactVars, hmsg, dmsg, announced>>

\* onComplete: redisClient.get(cacheKey) || []
AiCacheGet(h) ==
  /\ cpc[h] = "a_get"
  /\ ccached' = [ccached EXCEPT ![h] = CachedMessages(croom[h])]
  /\ cpc' = [cpc EXCEPT ![h] = "a_set"]
  /\ UNCHANGED <<connVars, roomVars, msgVars, fetchVars>>
  /\ UNCHANGED <<croom, csock, ctext, ctype, cmsg, cais, acc, csess, sbuf, reply, streaming, refused, emitted, markVars, reactVars, hmsg, dmsg, announced>>

\* onComplete: redisClient.setEx(cacheKey, ...), then aiMessageComplete; when
\* the write fails onComplete throws and generateResponse rejects
AiCacheSet(h, ok) ==
  /\ cpc[h] = "a_set"
  /\ IF ok
       THEN /\ cache' = CacheAppend(croom[h], ccached[h], msgs[cmsg[h]])
            /\ bcast' = EmitRoom(bcast, croom[h], {"aiMessageComplete"})
            /\ announced' = announced \cup {cmsg[h]}
            /\ reply' = ReplyEvent(h, "aiMessageComplete")
            /\ AfterReply(h, Tail(cais[h]))
       ELSE /\ cpc' = [cpc EXCEPT ![h] = "a_catch"]
            /\ UNCHANGED <<cache, bcast, announced, reply, cais>>
  /\ UNCHANGED <<connVars, roomRest, direct, fetchVars>>
  /\ UNCHANGED <<msgs, clock, page, reads>>
  /\ UNCHANGED <<croom, csock, ctext, ctype, cmsg, ccached, acc, csess, sbuf, streaming, refused, emitted, markVars, reactVars, hmsg, dmsg>>

\* onError: the streamingSession key is deleted and aiMessageError is
\* broadcast
AiError(h) ==
  /\ cpc[h] = "a_generate"
  /\ sbuf' = [sbuf EXCEPT ![h] = NoBuffer]
  /\ streaming' = Streaming(sbuf')
  /\ bcast' = EmitRoom(bcast, croom[h], {"aiMessageError"})
  /\ reply' = ReplyEvent(h, "aiMessageError")
  /\ cpc' = [cpc EXCEPT ![h] = "a_errored"]
  /\ UNCHANGED <<connVars, roomRest, direct, msgVars, fetchVars>>
  /\ UNCHANGED <<croom, csock, ctext, ctype, cmsg, cais, ccached, acc, csess, refused, emitted, markVars, reactVars, hmsg, dmsg, announced>>

\* generateResponse after onError has returned: its promise resolves, or it
\* rejects
AiSettle(h, rejects) ==
  /\ cpc[h] = "a_errored"
  /\ IF rejects
       THEN /\ cpc' = [cpc EXCEPT ![h] = "a_catch"]
            /\ UNCHANGED cais
       ELSE AfterReply(h, Tail(cais[h]))
  /\ UNCHANGED <<connVars, roomVars, msgVars, fetchVars>>
  /\ UNCHANGED <<croom, csock, ctext, ctype, cmsg, ccached, acc, csess, sbuf, reply, streaming, refused, emitted, markVars, reactVars, hmsg, dmsg, announced>>

\* generateResponse rejects without having invoked onComplete or onError
AiThrow(h) ==
  /\ cpc[h] = "a_generate"
  /\ cpc' = [cpc EXCEPT ![h] = "a_catch"]
  /\ UNCHANGED <<connVars, roomVars, msgVars, fetchVars>>
  /\ UNCHANGED <<croom, csock, ctext, ctype, cmsg, cais, ccached, acc, csess, sbuf, reply, streaming, refused, emitted, markVars, reactVars, hmsg, dmsg, announced>>

\* handleAIResponse, catch block: the streamingSession key is deleted and
\* aiMessageError is broadcast
AiCatch(h) ==
  /\ cpc[h] = "a_catch"
  /\ sbuf' = [sbuf EXCEPT ![h] = NoBuffer]
  /\ streaming' = Streaming(sbuf')
  /\ bcast' = EmitRoom(bcast, croom[h], {"aiMessageError"})
  /\ reply' = ReplyEvent(h, "aiMessageError")
  /\ AfterReply(h, Tail(cais[h]))
  /\ UNCHANGED <<connVars, roomRest, direct, msgVars, fetchVars>>
  /\ UNCHANGED <<croom, csock, ctext, ctype, cmsg, ccached, acc, csess, refused, emitted, markVars, reactVars, hmsg, dmsg, announced>>

\* onComplete is invoked while a call of onChunk is still waiting for its
\* read of the session: the streamingSession key is deleted
AiCompleteDuring(h) ==
  /\ cpc[h] = "a_chunk"
  /\ sbuf' = [sbuf EXCEPT ![h] = NoBuffer]
  /\ streaming' = Streaming(sbuf')
  /\ cpc' = [cpc EXCEPT ![h] = "a_save"]
  /\ UNCHANGED <<connVars, roomVars, msgVars, fetchVars>>
  /\ UNCHANGED <<croom, csock, ctext, ctype, cmsg, cais, ccached, acc, csess, reply, refused, emitted, markVars, reactVars, hmsg, dmsg, announced>>

\* onError is invoked while a call of onChunk is still waiting for its read
AiErrorDuring(h) ==
  /\ cpc[h] = "a_chunk"
  /\ sbuf' = [sbuf EXCEPT ![h] = NoBuffer]
  /\ streaming' = Streaming(sbuf')
  /\ bcast' = EmitRoom(bcast, croom[h], {"aiMessageError"})
  /\ reply' = ReplyEvent(h, "aiMessageError")
  /\ cpc' = [cpc EXCEPT ![h] = "a_errored"]
  /\ UNCHANGED <<connVars, roomRest, direct, msgVars, fetchVars>>
  /\ UNCHANGED <<croom, csock, ctext, ctype, cmsg, cais, ccached, acc, csess, refused, emitted, markVars, reactVars, hmsg, dmsg, announced>>

\* the call of onChunk that was overtaken goes on, before the chatMessage
\* handler has ended: the session it read is written back, aiMessageChunk is
\* broadcast
AiChunkLate(h) ==
  /\ csess[h].fragment # "none"
  /\ cpc[h] \in {"a_save", "a_get", "a_set", "a_errored", "a_catch", "c_activity"}
  /\ sbuf' = IF csess[h].read THEN [sbuf EXCEPT ![h] = BufferWrite(acc[h])] ELSE sbuf
  /\ streaming' = Streaming(sbuf')
  /\ reply' = [reply EXCEPT ![h].events = Append(@, "aiMessageChunk"),
                            ![h].chunks = Append(@, [currentChunk |-> csess[h].fragment,
                                                     fullContent |-> acc[h]])]
  /\ bcast' = EmitRoom(bcast, croom[h], {"aiMessageChunk"})
  /\ csess' = [csess EXCEPT ![h] = NoSession]
  /\ UNCHANGED <<connVars, roomRest, direct, msgVars, fetchVars>>
  /\ UNCHANGED <<cpc, croom, csock, ctext, ctype, cmsg, cais, ccached, acc, refused, emitted, markVars, reactVars, hmsg, dmsg, announced>>

\* a message that mentions the assistant, sent when no call of onChunk of an
\* earlier reply is left waiting
MentionSend(h, s) ==
  /\ csess[h] = NoSession
  /\ \E r \in Rooms, m \in Mentions : ChatMessage(h, s, r, m.type, m.content)

\* chatMessage: SessionService.updateLastActivity, the handler ends
ChatActivity(h) ==
  /\ cpc[h] = "c_activity"
  /\ ChatFinish(h)
  /\ UNCHANGED <<connVars, roomVars, msgVars, fetchVars>>
  /\ UNCHANGED <<csess, sbuf, streaming, refused, emitted, markVars, reactVars, hmsg, dmsg, announced>>

----------------------------------------------------------------------------
(* History loading taken alone *)

\* the limits loadMessages is applied with
Limits == {2, BATCH_SIZE}

\* a system message is persisted (joinRoom, leaveRoom, disconnect)
SaveMessage(r) ==
  /\ Len(msgs) < MaxMsgs
  /\ Persist(r, "system")
  /\ UNCHANGED <<cache, page, reads>>
  /\ UNCHANGED <<connVars, roomVars>>
  /\ UNCHANGED <<fetchVars, chatVars>>

\* loadMessages(socket, r, before, limit) returns
LoadPage(r, before, limit) ==
  /\ page' = loadMessages(r, before, limit)
  /\ reads' = ReadUpdate(page')
  /\ cache' = CacheAfterLoad(r, before, limit)
  /\ UNCHANGED <<msgs, clock>>
  /\ UNCHANGED <<connVars, roomVars>>
  /\ UNCHANGED <<fetchVars, chatVars>>

\* the time-to-live of room:messages:<r> runs out
CacheExpire(r) ==
  /\ cache[r].present
  /\ cache' = [cache EXCEPT ![r] = NoCache]
  /\ UNCHANGED <<msgs, clock, page, reads>>
  /\ UNCHANGED <<connVars, roomVars>>
  /\ UNCHANGED <<fetchVars, chatVars>>

\* chatMessage of a member with a valid session and the text "hi", taken
\* without another handler in between: save, cache append, `message` broadcast
SendText(r) ==
  /\ Len(msgs) < MaxStored
  /\ LET m == Document(r, "text", <<"hi">>)
     IN /\ msgs' = Append(msgs, m)
        /\ cache' = CacheAppend(r, CachedMessages(r), m)
        /\ announced' = announced \cup {m.id}
        /\ emitted' = Append(emitted, m.id)
  /\ clock' = clock + 1
  /\ bcast' = EmitRoom(bcast, r, {"message"})
  /\ UNCHANGED <<connVars, roomRest, direct, page, reads, fetchVars>>
  /\ UNCHANGED <<cpc, croom, csock, ctext, ctype, cmsg, cais, ccached, acc, csess, sbuf, reply, streaming, refused, markVars, reactVars, hmsg, dmsg>>

\* the identity's first loadMessages(socket, r) that finds messages (no read
\* receipt of it is stored yet), when room:messages:<r> is absent or empty
LoadMiss(r) == reads = {} /\ ~CacheHit(r, 0) /\ LoadPage(r, 0, BATCH_SIZE)

----------------------------------------------------------------------------
(* Read receipts *)

\* read receipts are followed for two identities, each on one connection
SocketOf(u) == IF u = TheUser THEN "sA" ELSE "sB"

\* invocations of the markMessagesAsRead handler in progress together
Marks == {"m1", "m2"}

\* an invocation is counted as m2 only while m1 is in progress
MarkSlot(m) == m = "m1" \/ mpc["m1"] # "idle"

\* the messageIds of the requests
IdLists == {<<>>, <<1>>, <<1, 2>>}

\* the identity has an entry in the readers array of the stored document
HasRead(m, u) == \E k \in 1..Len(m.readers) : m.readers[k] = ObjectId(u)

\* the update { $push: { readers: {userId, readAt} } } without its filter
UpdateRead_unfiltered(m, u) == [m EXCEPT !.readers = Append(@, ObjectId(u))]

\* one document under the filter {'readers.userId': {$ne: userId}} and the
\* update { $push: { readers: {userId, readAt} } }: the store applies both as
\* one operation on the document
UpdateRead(m, u) == IF HasRead(m, u) THEN m ELSE [m EXCEPT !.readers = Append(@, ObjectId(u))]

\* a system message is persisted in the room whose receipts are followed
SaveFew(r) == Len(msgs) < MaxRead /\ SaveMessage(r)

\* the store applies one updateOne of a bulkWrite that loadMessages issued
BulkRead(i, u) ==
  /\ [id |-> i, user |-> u] \in reads
  /\ reads' = reads \ {[id |-> i, user |-> u]}
  /\ msgs' = [msgs EXCEPT ![i] = UpdateRead(@, u)]
  /\ UNCHANGED <<cache, clock, page>>
  /\ UNCHANGED <<connVars, roomVars, fetchVars, chatVars>>

\* markMessagesAsRead up to the end of Message.updateMany; an empty id list
\* returns at once
MarkRead(m, u, r, ids) ==
  /\ mpc[m] = "idle"
  /\ MarkSlot(m)
  /\ ops < MaxOps
  /\ ops' = ops + 1
  /\ IF ids = <<>>
       THEN UNCHANGED <<msgs, markVars>>
       ELSE /\ msgs' = [i \in 1..Len(msgs) |->
                         IF (\E k \in 1..Len(ids) : ids[k] = msgs[i].id) /\ msgs[i].room = r
                           THEN UpdateRead(msgs[i], u)
                           ELSE msgs[i]]
            /\ mpc' = [mpc EXCEPT ![m] = "m_patch"]
            /\ mroom' = [mroom EXCEPT ![m] = r]
            /\ mids' = [mids EXCEPT ![m] = ids]
            /\ muser' = [muser EXCEPT ![m] = u]
  /\ UNCHANGED <<connectedUser, st, proc, cred, pc, timers, warned, ended,
                 dreason, dpc, dRoom, born, unhandled, redisClient, lookedOpen, takeovers, deleted>>
  /\ UNCHANGED <<roomVars, fetchVars>>
  /\ UNCHANGED <<cache, clock, page, reads>>
  /\ UNCHANGED <<cpc, croom, csock, ctext, ctype, cmsg, cais, ccached, acc, csess, sbuf, reply,
                 streaming, refused, emitted, reactVars, hmsg, dmsg, announced>>

\* the patch loop reaches cached[idx].readers.push({userId, readAt}): a cached
\* copy of one of the messages does not list the identity, and evaluating the
\* unbound name readAt throws
PatchThrows(cached, ids, u) ==
  \E k \in 1..Len(ids), idx \in 1..Len(cached) :
    /\ cached[idx].id = ids[k]
    /\ ~\E j \in 1..Len(cached[idx].readers) : cached[idx].readers[j] = u

\* markMessagesAsRead: redisClient.get(cacheKey), the patch loop, then the
\* messagesRead broadcast, or the catch block's `error` to the connection
MarkPatch(m) ==
  /\ mpc[m] = "m_patch"
  /\ IF PatchThrows(CachedMessages(mroom[m]), mids[m], muser[m])
       THEN /\ direct' = EmitSocket(direct, SocketOf(muser[m]), "error")
            /\ UNCHANGED bcast
       ELSE /\ bcast' = EmitRoom(bcast, mroom[m], {"messagesRead"})
            /\ UNCHANGED direct
  /\ mpc' = [mpc EXCEPT ![m] = "idle"]
  /\ mroom' = [mroom EXCEPT ![m] = NoSuchRoom]
  /\ mids' = [mids EXCEPT ![m] = <<>>]
  /\ muser' = [muser EXCEPT ![m] = NoKey]
  /\ UNCHANGED <<connVars, roomRest, msgVars, fetchVars>>
  /\ UNCHANGED <<cpc, croom, csock, ctext, ctype, cmsg, cais, ccached, acc, csess, sbuf, reply,
                 streaming, refused, emitted, reactVars, hmsg, dmsg, announced>>

----------------------------------------------------------------------------
(* Reactions *)

\* invocations of the messageReaction handler in progress together
Reactors == {"k1", "k2"}

\* an invocation is counted as k2 only while k1 is in progress
ReactSlot(k) == k = "k1" \/ kpc["k1"] # "idle"

ReactionTypes == {"add", "remove"}

\* userReactions.includes(userId) on the array of ObjectIds of a label
Includes(list, u) == \E j \in 1..Len(list) : IdString(list[j]) = u

\* addReaction that pushes without looking for the identity
addReaction_always(x, emoji, u) == [x EXCEPT ![emoji] = Append(@, ObjectId(u))]

\* MessageSchema.methods.addReaction: the map after the call
addReaction(x, emoji, u) ==
  IF Includes(x[emoji], u) THEN x ELSE [x EXCEPT ![emoji] = Append(@, ObjectId(u))]

\* MessageSchema.methods.removeReaction: the map after the call
removeReaction(x, emoji, u) ==
  IF x[emoji] = <<>>
    THEN x
    ELSE [x EXCEPT ![emoji] = SelectSeq(@, LAMBDA id : IdString(id) # u)]

\* a system message is persisted in the room whose reactions are followed
SaveOne(r) == Len(msgs) < MaxReacted /\ SaveMessage(r)

\* messageReaction up to the end of Message.findById; without the message
\* the handler throws into its catch block
MessageReaction(k, u, id, emoji, type) ==
  /\ kpc[k] = "idle"
  /\ ReactSlot(k)
  /\ ops < MaxOps
  /\ ops' = ops + 1
  /\ IF id \in 1..Len(msgs)
       THEN /\ kpc' = [kpc EXCEPT ![k] = "k_save"]
            /\ kuser' = [kuser EXCEPT ![k] = u]
            /\ kid' = [kid EXCEPT ![k] = id]
            /\ kemoji' = [kemoji EXCEPT ![k] = emoji]
            /\ ktype' = [ktype EXCEPT ![k] = type]
            /\ kdoc' = [kdoc EXCEPT ![k] = msgs[id].reactions]
            /\ UNCHANGED direct
       ELSE /\ direct' = EmitSocket(direct, SocketOf(u), "error")
            /\ UNCHANGED reactVars
  /\ UNCHANGED <<connectedUser, st, proc, cred, pc, timers, warned, ended,
                 dreason, dpc, dRoom, born, unhandled, redisClient, lookedOpen, takeovers, deleted>>
  /\ UNCHANGED <<roomRest, bcast, msgVars, fetchVars>>
  /\ UNCHANGED <<cpc, croom, csock, ctext, ctype, cmsg, cais, ccached, acc, csess, sbuf, reply,
                 streaming, refused, emitted, markVars, hmsg, dmsg, announced>>

\* message.addReaction / message.removeReaction on the loaded document; its
\* save() writes the label that was set or deleted
ReactSave(k) ==
  /\ kpc[k] = "k_save"
  /\ LET after == IF ktype[k] = "add"
                    THEN addReaction(kdoc[k], kemoji[k], kuser[k])
                    ELSE removeReaction(kdoc[k], kemoji[k], kuser[k])
         saved == IF ktype[k] = "add"
                    THEN ~Includes(kdoc[k][kemoji[k]], kuser[k])
                    ELSE kdoc[k][kemoji[k]] # <<>>
     IN /\ kdoc' = [kdoc EXCEPT ![k] = after]
        /\ msgs' = IF saved
                     THEN [msgs EXCEPT ![kid[k]].reactions[kemoji[k]] = after[kemoji[k]]]
                     ELSE msgs
  /\ kpc' = [kpc EXCEPT ![k] = "k_patch"]
  /\ UNCHANGED <<kuser, kid, kemoji, ktype>>
  /\ UNCHANGED <<connVars, roomVars, fetchVars>>
  /\ UNCHANGED <<cache, clock, page, reads>>
  /\ UNCHANGED <<cpc, croom, csock, ctext, ctype, cmsg, cais, ccached, acc, csess, sbuf, reply,
                 streaming, refused, emitted, markVars, hmsg, dmsg, announced>>

\* the cached list with the reactions of the cached copy of message id replaced
PatchReactions(cached, id, x) ==
  [i \in 1..Len(cached) |->
     IF cached[i].id = id THEN [cached[i] EXCEPT !.reactions = ReactionsJSON(x)] ELSE cached[i]]

\* messageReaction: the cached copy of the message is given the reactions of
\* the handler's document, then messageReactionUpdate is broadcast
ReactPatch(k) ==
  /\ kpc[k] = "k_patch"
  /\ LET r == msgs[kid[k]].room
         cached == CachedMessages(r)
     IN /\ cache' = IF \E i \in 1..Len(cached) : cached[i].id = kid[k]
                      THEN [cache EXCEPT ![r] = [present |-> TRUE,
                              list |-> PatchReactions(cached, kid[k], kdoc[k])]]
                      ELSE cache
        /\ bcast' = EmitRoom(bcast, r, {"messageReactionUpdate"})
  /\ kpc' = [kpc EXCEPT ![k] = "idle"]
  /\ kuser' = [kuser EXCEPT ![k] = NoKey]
  /\ kid' = [kid EXCEPT ![k] = 0]
  /\ kemoji' = [kemoji EXCEPT ![k] = "none"]
  /\ ktype' = [ktype EXCEPT ![k] = "none"]
  /\ kdoc' = [kdoc EXCEPT ![k] = NoReactions]
  /\ UNCHANGED <<connVars, roomRest, direct, fetchVars>>
  /\ UNCHANGED <<msgs, clock, page, reads>>
  /\ UNCHANGED <<cpc, croom, csock, ctext, ctype, cmsg, cais, ccached, acc, csess, sbuf, reply,
                 streaming, refused, emitted, markVars, hmsg, dmsg, announced>>

----------------------------------------------------------------------------
(* The store wrapper taken alone *)

\* everything but the wrapper
notStore == <<connectedUser, st, proc, cred, pc, timers, warned, ended, dreason, dpc,
              dRoom, born, unhandled, ops, lookedOpen, takeovers, deleted,
              roomVars, msgVars, fetchVars, chatVars>>

\* connect(): the backing is chosen by NODE_ENV and the Redis configuration
StoreConnect(b) ==
  /\ redisClient.backing = "none"
  /\ redisClient' = [redisClient EXCEPT !.backing = b]
  /\ UNCHANGED notStore

StoreSetEx(k, value) ==
  /\ redisClient.backing \in Backings
  /\ LET r == setEx(redisClient.backing, redisClient.store, k, value)
     IN redisClient' = [redisClient EXCEPT !.store = r.store, !.result = r.result,
                                           !.ideal = [@ EXCEPT ![k] = value],
                                           !.want = Str("OK")]
  /\ UNCHANGED notStore

\* RedisClient.set(key, value, { ttl }): every backing stores the string
StoreSet(k, value) ==
  /\ redisClient.backing \in Backings
  /\ redisClient' = [redisClient EXCEPT !.store = [@ EXCEPT ![k] = RedisSet(value)],
                                        !.ideal = [@ EXCEPT ![k] = value],
                                        !.result = Str("OK"), !.want = Str("OK")]
  /\ UNCHANGED notStore

StoreGet(k) ==
  /\ redisClient.backing \in Backings
  /\ redisClient' = [redisClient EXCEPT !.result = RedisGet(redisClient.store[k]),
                                        !.want = RedisGet(redisClient.ideal[k])]
  /\ UNCHANGED notStore

StoreDel(form, ks) ==
  /\ redisClient.backing \in Backings
  /\ form = "one" => Len(ks) = 1
  /\ LET r == del(redisClient.backing, redisClient.store, form, ks)
     IN redisClient' = [redisClient EXCEPT !.store = r.store, !.result = Null,
                                           !.ideal = IdealDel(@, ks),
                                           !.want = Null]
  /\ UNCHANGED notStore

StoreScan(pattern, node) ==
  /\ redisClient.backing \in Backings
  /\ redisClient' = [redisClient EXCEPT
       !.result = Keys(redisClient.backing, redisClient.store, pattern, node),
       !.want = IdealKeys(redisClient.ideal, pattern)]
  /\ UNCHANGED notStore

\* the time to live of a key runs out
StoreExpire(k) ==
  /\ redisClient.store[k] # NoKey \/ redisClient.ideal[k] # NoKey
  /\ redisClient' = [redisClient EXCEPT !.store = [@ EXCEPT ![k] = NoKey],
                                        !.ideal = [@ EXCEPT ![k] = NoKey]]
  /\ UNCHANGED notStore

NextStore ==
  \/ \E b \in Backings : StoreConnect(b)
  \/ \E k \in StoreKeys : StoreSetEx(k, "sA")
  \/ \E k \in StoreKeys : StoreSet(k, "sA")
  \/ \E k \in StoreKeys : StoreGet(k)
  \/ \E form \in DelForms, ks \in KeyLists : StoreDel(form, ks)
  \/ \E pattern \in Patterns, node \in Nodes : StoreScan(pattern, node)
  \/ \E k \in StoreKeys : StoreExpire(k)

----------------------------------------------------------------------------
(* Specifications *)

Init ==
  /\ connectedUser = NoKey
  /\ userRoom = NoKey
  /\ roomList = {}
  /\ outdated = {}
  /\ st = [s \in SocketIds |-> "none"]
  /\ proc = [s \in SocketIds |-> 1]
  /\ cred = [s \in SocketIds |-> "ok"]
  /\ pc = [s \in SocketIds |-> "idle"]
  /\ timers = {}
  /\ warned = [s \in SocketIds |-> FALSE]
  /\ ended = [s \in SocketIds |-> FALSE]
  /\ dreason = [s \in SocketIds |-> "none"]
  /\ dpc = [s \in SocketIds |-> "idle"]
  /\ dRoom = [s \in SocketIds |-> Null]
  /\ born = [s \in SocketIds |-> 0]
  /\ unhandled = FALSE
  /\ redisClient = NotConnected
  /\ ops = 0
  /\ lookedOpen = [s \in SocketIds |-> {}]
  /\ takeovers = {}
  /\ deleted = [s \in SocketIds |-> NoKey]
  /\ participants = [r \in Rooms |-> FALSE]
  /\ subs = [s \in SocketIds |-> {}]
  /\ hpc = [s \in SocketIds |-> "idle"]
  /\ hroom = [s \in SocketIds |-> NoSuchRoom]
  /\ hcur = [s \in SocketIds |-> Null]
  /\ hkeys = [s \in SocketIds |-> {}]
  /\ bcast = [r \in Rooms |-> [e \in RoomEvents |-> 0]]
  /\ direct = [s \in SocketIds |-> [e \in SocketEvents |-> 0]]
  /\ ignored = [room |-> NoKey, occupancy |-> NoKey]
  /\ msgs = <<>>
  /\ cache = [r \in Rooms |-> NoCache]
  /\ clock = 1
  /\ page = NoPage
  /\ reads = {}
  /\ retry = NoRetry
  /\ loading = FALSE
  /\ unlock = 0
  /\ stale = {}
  /\ fpc = [f \in Requests |-> "idle"]
  /\ fbefore = [f \in Requests |-> 0]
  /\ ferr = [f \in Requests |-> "none"]
  /\ fcur = [f \in Requests |-> 0]
  /\ tries = [f \in Requests |-> 0]
  /\ kinds = [f \in Requests |-> {}]
  /\ loaded = [f \in Requests |-> 0]
  /\ errors = [f \in Requests |-> 0]
  /\ errmsg = [f \in Requests |-> "none"]
  /\ during = [f \in Requests |-> FALSE]
  /\ cpc = [h \in Handlers |-> "idle"]
  /\ croom = [h \in Handlers |-> NoSuchRoom]
  /\ csock = [h \in Handlers |-> NoSocket]
  /\ ctext = [h \in Handlers |-> NoContent]
  /\ ctype = [h \in Handlers |-> "none"]
  /\ cmsg = [h \in Handlers |-> 0]
  /\ cais = [h \in Handlers |-> <<>>]
  /\ ccached = [h \in Handlers |-> <<>>]
  /\ emitted = <<>>
  /\ kpc = [k \in Reactors |-> "idle"]
  /\ kuser = [k \in Reactors |-> NoKey]
  /\ kid = [k \in Reactors |-> 0]
  /\ kemoji = [k \in Reactors |-> "none"]
  /\ ktype = [k \in Reactors |-> "none"]
  /\ kdoc = [k \in Reactors |-> NoReactions]
  /\ mpc = [m \in Marks |-> "idle"]
  /\ mroom = [m \in Marks |-> NoSuchRoom]
  /\ mids = [m \in Marks |-> <<>>]
  /\ muser = [m \in Marks |-> NoKey]
  /\ acc = [h \in Handlers |-> <<>>]
  /\ csess = [h \in Handlers |-> NoSession]
  /\ sbuf = [h \in Handlers |-> NoBuffer]
  /\ reply = [h \in Handlers |-> NoReply]
  /\ streaming = 0
  /\ hmsg = [s \in SocketIds |-> 0]
  /\ dmsg = [s \in SocketIds |-> 0]
  /\ announced = {}
  /\ refused = [sock |-> NoSocket, room |-> NoKey]

\* connecting, taking over and disconnecting
\* Socket ids and process numbers are arbitrary names: the next handshake
\* takes the first unused socket id and an already used process or the first
\* unused one
SocketOrder == <<"sA", "sB">>

NextSocket(s) ==
  \E i \in 1..Len(SocketOrder) :
    /\ SocketOrder[i] = s
    /\ \A j \in 1..(i - 1) : st[SocketOrder[j]] # "none"

NextProcs ==
  {p \in Procs : \A q \in 1..(p - 1) : \E o \in SocketIds : st[o] # "none" /\ proc[o] = q}

\* the actions on connections other than the handshake
ConnSteps ==
  \/ \E s \in SocketIds : AuthLookup(s)
  \/ \E t \in timers : GraceTimeout(t)
  \/ \E s \in SocketIds : AuthValidate(s)
  \/ \E s \in SocketIds : ConnLookup(s)
  \/ \E s \in SocketIds : ConnWrite(s)
  \/ \E s \in SocketIds, why \in ClientReasons : ClientDisconnect(s, why)
  \/ \E s \in SocketIds : DiscGetPresence(s)
  \/ \E s \in SocketIds : DiscDelPresence(s)
  \/ \E s \in SocketIds : DiscGetRoom(s)
  \/ \E s \in SocketIds : DiscDelRoom(s)
  \/ \E s \in SocketIds : DiscKeys(s)

NextConn ==
  \/ \E s \in SocketIds, p \in NextProcs, k \in Creds : NextSocket(s) /\ Connect(s, p, k)
  \/ ConnSteps

\* joining and leaving rooms
NextRoom ==
  \/ \E s \in SocketIds, r \in RoomArgs : JoinRoom(s, r)
  \/ \E s \in SocketIds : JoinDel(s)
  \/ \E s \in SocketIds : JoinUpdate(s)
  \/ \E s \in SocketIds : JoinSet(s)
  \/ \E s \in SocketIds : JoinSave(s)
  \/ \E s \in SocketIds, ok \in BOOLEAN : JoinLoad(s, ok)
  \/ \E s \in SocketIds, r \in RoomArgs : LeaveRoom(s, r)
  \/ \E s \in SocketIds : LeaveFind(s)
  \/ \E s \in SocketIds : LeaveDel(s)
  \/ \E s \in SocketIds : LeaveMsg(s)
  \/ \E s \in SocketIds : LeavePull(s)
  \/ \E s \in SocketIds : LeaveKeys(s)
  \/ \E s \in SocketIds : LeaveDelKeys(s)
  \/ \E k \in ListKeys : ListRooms(k)
  \/ \E s \in SocketIds : DiscLeaveMsg(s)
  \/ \E s \in SocketIds : DiscPull(s)

NextLoad ==
  \/ \E r \in Rooms : SaveMessage(r)
  \/ \E r \in Rooms, before \in 0..MaxMsgs, limit \in Limits : LoadPage(r, before, limit)
  \/ \E r \in Rooms : CacheExpire(r)

\* the recent-message cache of one room under sends, refreshing loads and
\* expiry
NextCache ==
  \/ SendText(FetchRoom)
  \/ LoadMiss(FetchRoom)
  \/ CacheExpire(FetchRoom)

\* read receipts of the messages of one room: marks of both identities,
\* loads of the first, and the store applying the loads' updates
NextRead ==
  \/ SaveFew(FetchRoom)
  \/ LoadPage(FetchRoom, 0, BATCH_SIZE)
  \/ CacheExpire(FetchRoom)
  \/ \E i \in 1..MaxRead, u \in Users : BulkRead(i, u)
  \/ \E m \in Marks, u \in Users, ids \in IdLists : MarkRead(m, u, FetchRoom, ids)
  \/ \E m \in Marks : MarkPatch(m)

\* the reactions of one message under the requests of two identities, one
\* request at a time
NextReact ==
  \/ SaveOne(FetchRoom)
  \/ LoadPage(FetchRoom, 0, BATCH_SIZE)
  \/ \E u \in Users, id \in 1..(MaxReacted + 1), emoji \in Emojis, type \in ReactionTypes :
       MessageReaction("k1", u, id, emoji, type)
  \/ ReactSave("k1")
  \/ ReactPatch("k1")

\* the reactions of one message under two requests in progress together
NextReact2 ==
  \/ SaveOne(FetchRoom)
  \/ \E k \in Reactors, u \in Users, emoji \in Emojis, type \in ReactionTypes :
       MessageReaction(k, u, MaxReacted, emoji, type)
  \/ \E k \in Reactors : ReactSave(k)
  \/ \E k \in Reactors : ReactPatch(k)

\* every handshake of the room specification carries valid credentials
Next ==
  \/ \E s \in SocketIds, p \in NextProcs : NextSocket(s) /\ Connect(s, p, "ok")
  \/ ConnSteps
  \/ NextRoom

\* the whole coordinator
Spec == Init /\ [][Next]_vars

\* one connection of the identity, on one process: no takeover arises
NextOne ==
  \/ Connect("sA", 1, "ok")
  \/ AuthLookup("sA")
  \/ AuthValidate("sA")
  \/ ConnLookup("sA")
  \/ ConnWrite("sA")
  \/ \E why \in ClientReasons : ClientDisconnect("sA", why)
  \/ DiscGetPresence("sA")
  \/ DiscDelPresence("sA")
  \/ DiscGetRoom("sA")
  \/ DiscDelRoom("sA")
  \/ DiscKeys("sA")
  \/ NextRoom

SpecOne == Init /\ [][NextOne]_vars

\* the store wrapper taken alone, on each backing
SpecStore == Init /\ [][NextStore]_vars

\* one connection of the identity next to its HTTP requests
NextList ==
  \/ NextOne
  \/ \E r \in Rooms : HttpJoin(r)

SpecList == Init /\ [][NextList]_vars

\* connections only
SpecConn == Init /\ [][NextConn]_vars

\* the message store, the recent-message cache and loadMessages
SpecLoad == Init /\ [][NextLoad]_vars

SpecCache == Init /\ [][NextCache]_vars

SpecRead == Init /\ [][NextRead]_vars

SpecReact == Init /\ [][NextReact]_vars
SpecReact2 == Init /\ [][NextReact2]_vars

\* the steps of the connection that pages: it connects and joins the room
FetchSetting ==
  \/ Connect(FetchSocket, 1, "ok")
  \/ AuthLookup(FetchSocket)
  \/ AuthValidate(FetchSocket)
  \/ ConnLookup(FetchSocket)
  \/ ConnWrite(FetchSocket)
  \/ JoinRoom(FetchSocket, FetchRoom)
  \/ JoinUpdate(FetchSocket)
  \/ JoinSet(FetchSocket)
  \/ JoinSave(FetchSocket)
  \/ \E ok \in BOOLEAN : JoinLoad(FetchSocket, ok)

\* the steps of the requests in R
FetchSteps(R) ==
  \/ \E f \in R, before \in FetchBefore : FetchPrevious(f, before)
  \/ \E f \in R : FetchGuard(f)
  \/ \E f \in R : FetchSet(f)
  \/ \E f \in R : RetryRead(f)
  \/ \E f \in R, out \in Outcomes : RetryLoad(f, out)
  \/ \E f \in R : RetryDone(f)
  \/ \E f \in R : RetryReturn(f)
  \/ \E f \in R : RetryCatch(f)
  \/ \E f \in R : RetrySet(f)
  \/ \E f \in R : RetryDelay(f)
  \/ \E f \in R : RetryGiveUp(f)
  \/ UnlockTimer
  \/ GuardExpire

\* one request, and the connection may be lost while it runs
NextFetch ==
  \/ FetchSetting
  \/ FetchSteps({"f1"})
  \/ ClientDisconnect(FetchSocket, "transport close")
  \/ DiscGetPresence(FetchSocket)
  \/ DiscDelPresence(FetchSocket)
  \/ DiscGetRoom(FetchSocket)
  \/ DiscDelRoom(FetchSocket)
  \/ DiscKeys(FetchSocket)
  \/ DiscDelQueue(FetchSocket)
  \/ DiscDelRetry(FetchSocket)
  \/ DiscLeaveMsg(FetchSocket)
  \/ DiscPull(FetchSocket)

SpecFetch == Init /\ [][NextFetch]_vars

\* one request of a connection whose store calls outside a try block may fail
NextFail ==
  \/ NextFetch
  \/ ConnFails(FetchSocket)
  \/ UnlockFails

SpecFail == Init /\ [][NextFail]_vars

\* two requests of the connection, which stays
NextFetch2 ==
  \/ FetchSetting
  \/ FetchSteps(Requests)

SpecFetch2 == Init /\ [][NextFetch2]_vars

\* the steps of invocation h of chatMessage on connection s, sending one of S
SendSteps(h, s, S) ==
  \/ \E r \in Rooms, m \in S : ChatMessage(h, s, r, m.type, m.content)
  \/ \E valid \in BOOLEAN : ChatSession(h, valid)
  \/ \E found \in BOOLEAN : ChatFile(h, found)
  \/ ChatSave(h)
  \/ ChatCacheGet(h)
  \/ ChatCacheSet(h)
  \/ ChatActivity(h)

\* a reply that is generated without fragments and whose completion handling
\* does not fail
PlainReply(h) ==
  \/ AiSession(h)
  \/ AiComplete(h)
  \/ AiSave(h, TRUE)
  \/ AiCacheGet(h)
  \/ AiCacheSet(h, TRUE)
  \/ AiError(h)
  \/ AiSettle(h, FALSE)

\* the steps of a reply that invocation h awaits
ReplySteps(h) ==
  \/ AiSession(h)
  \/ \E fragment \in Fragments : AiChunk(h, fragment)
  \/ AiChunkSet(h)
  \/ BufferExpire(h)
  \/ AiComplete(h)
  \/ \E ok \in BOOLEAN : AiSave(h, ok)
  \/ AiCacheGet(h)
  \/ \E ok \in BOOLEAN : AiCacheSet(h, ok)
  \/ AiError(h)
  \/ \E rejects \in BOOLEAN : AiSettle(h, rejects)
  \/ AiThrow(h)
  \/ AiCatch(h)

\* one connection of the identity that joins, sends, leaves and is lost
NextChat ==
  \/ FetchSetting
  \/ SendSteps("c1", FetchSocket, Sends)
  \/ PlainReply("c1")
  \/ LeaveRoom(FetchSocket, FetchRoom)
  \/ LeaveFind(FetchSocket)
  \/ LeaveDel(FetchSocket)
  \/ LeaveMsg(FetchSocket)
  \/ LeavePull(FetchSocket)
  \/ LeaveKeys(FetchSocket)
  \/ ClientDisconnect(FetchSocket, "transport close")
  \/ DiscGetPresence(FetchSocket)
  \/ DiscDelPresence(FetchSocket)
  \/ DiscGetRoom(FetchSocket)
  \/ DiscDelRoom(FetchSocket)
  \/ DiscKeys(FetchSocket)
  \/ DiscLeaveMsg(FetchSocket)
  \/ DiscPull(FetchSocket)

SpecChat == Init /\ [][NextChat]_vars

\* one connection of the identity with two invocations of chatMessage in
\* progress together
NextChat2 ==
  \/ FetchSetting
  \/ \E h \in Handlers : SendSteps(h, FetchSocket, Sends2) \/ PlainReply(h)

SpecChat2 == Init /\ [][NextChat2]_vars

\* one connection of the identity whose sends mention assistants
NextReply ==
  \/ FetchSetting
  \/ \E r \in Rooms, m \in Mentions : ChatMessage("c1", FetchSocket, r, m.type, m.content)
  \/ \E valid \in BOOLEAN : ChatSession("c1", valid)
  \/ ChatSave("c1")
  \/ ChatCacheGet("c1")
  \/ ChatCacheSet("c1")
  \/ ChatActivity("c1")
  \/ ReplySteps("c1")

SpecReply == Init /\ [][NextReply]_vars

\* the reply of a collaborator that does not wait for onChunk to return
\* before it invokes the next callback
NextOverlap ==
  \/ FetchSetting
  \/ MentionSend("c1", FetchSocket)
  \/ \E valid \in BOOLEAN : ChatSession("c1", valid)
  \/ ChatSave("c1")
  \/ ChatCacheGet("c1")
  \/ ChatCacheSet("c1")
  \/ ChatActivity("c1")
  \/ ReplySteps("c1")
  \/ AiCompleteDuring("c1")
  \/ AiErrorDuring("c1")
  \/ AiChunkLate("c1")

SpecOverlap == Init /\ [][NextOverlap]_vars

----------------------------------------------------------------------------
(* Claims on the single-session arbiter *)

Open == {s \in SocketIds : st[s] = "open"}

\* a timer that will close o is pending
Armed(o) == \E t \in timers : t.target = o

\* C1: a connection that was open when a later connection of the identity
\* made its middleware presence lookup is forcibly closed: once the later
\* connection is authenticated and has finished its connection block, and no
\* duplicate-login timer for the earlier one is pending any more, the earlier
\* connection is closed.
C1_FirstConnectionEvicted ==
  \A s \in SocketIds : \A o \in lookedOpen[s] :
    (pc[s] = "ready" /\ ~Armed(o)) => st[o] = "closed"

\* C2: whenever no duplicate-login timer is pending, at most one established
\* connection of the identity exists.
C2_OneEstablishedConnection ==
  timers = {} => Cardinality(Open) <= 1

\* C3: the disconnect handling of a connection never deletes a Presence Record
\* that names a newer connection.
C3_DisconnectKeepsNewerRecord ==
  \A s \in SocketIds :
    deleted[s] \in SocketIds => born[deleted[s]] <= born[s]

\* C4: a connection refused at authentication causes no duplicate-login
\* warning (and so no forced close) of an existing connection.
C4_RefusedTouchesNothing ==
  \A t \in takeovers : cred[t.by] = "ok"

\* C5: in a takeover the evicted connection gets session_ended only after
\* duplicate_login, the new connection is not established before the old one
\* is closed, and once both have finished the Presence Record names the new one.
C5_TakeoverSequence ==
  /\ \A s \in SocketIds : ended[s] => warned[s]
  /\ \A t \in takeovers :
       /\ st[t.by] = "open" => st[t.old] = "closed"
       /\ (st[t.by] = "open" /\ pc[t.by] = "ready" /\ pc[t.old] = "ready"
             /\ dpc[t.old] = "done")
          => connectedUser = t.by

----------------------------------------------------------------------------
(* Claims on room membership *)

\* C6: a joinRoom for the room the Occupancy Record already names reports
\* success and changes nothing: the handler returns at once, the record, the
\* member lists, the subscriptions and the messages stay as they are and
\* nothing is broadcast.
C6_JoinIdempotent ==
  [][\A s \in SocketIds, r \in Rooms :
       (userRoom = r /\ JoinRoom(s, r)) =>
         /\ direct' = EmitSocket(direct, s, "joinRoomSuccess")
         /\ UNCHANGED <<userRoom, participants, subs, msgs, bcast, hpc>>]_vars

\* C7: when a joinRoom has added the identity to the new room, the identity is
\* no longer in the member list of the different room it occupied before and
\* that room was sent the membership event.
C7_OldRoomVacatedFirst ==
  \A s \in SocketIds : \A r \in RoomsNamed(hcur[s]) \ {hroom[s]} :
    hpc[s] = "j_set" => (~participants[r] /\ bcast[r]["userLeft"] > 0)

\* no joinRoom, leaveRoom or disconnect handler is running
Quiescent ==
  \A s \in SocketIds : hpc[s] = "idle" /\ dpc[s] \in {"idle", "done"}

\* the room ids the store reads back as they were written
PlainRooms == {r \in Rooms : ~LooksNumeric(r)}

\* C8: between handlers, every connection is subscribed to at most one room,
\* and to none but the room the Occupancy Record names. Stated for the rooms
\* whose ids the store reads back as written, so that a violation does not
\* rest on the comparison that fails C6.
C8_SubscriptionMatchesOccupancy ==
  Quiescent =>
    \A s \in SocketIds :
      /\ Cardinality(subs[s] \cap PlainRooms) <= 1
      /\ \A r \in subs[s] \cap PlainRooms : userRoom = r

\* C9: a leaveRoom for a room the Occupancy Record does not name (absent, or
\* another room) returns at its guard: member lists, Occupancy Record, messages,
\* room-list cache and message cache are unchanged and nothing is emitted.
C9_StaleLeaveIgnored ==
  [][\A s \in SocketIds, r \in RoomArgs :
       (userRoom # r /\ LeaveRoom(s, r)) =>
         UNCHANGED <<userRoom, participants, subs, roomList, msgs, cache,
                     bcast, direct, hpc>>]_vars

\* a leaveRoom for one room was ignored while the identity occupied another
\* room, was in its member list, and a room-list cache entry existed
C9_Witness ==
  /\ ignored.room \in Rooms
  /\ userRoom = ignored.occupancy
  /\ ignored.occupancy \in Rooms \ {ignored.room}
  /\ participants[ignored.occupancy]
  /\ roomList # {}

----------------------------------------------------------------------------
(* Claims on history pages *)

Ascending(q) == \A i \in 1..(Len(q) - 1) : q[i].ts <= q[i + 1].ts

\* C10: every page loadMessages returns lists its messages in ascending
\* timestamp order, and its oldestTimestamp is the timestamp of its first
\* message (null for an empty page).
C10_PageAscending ==
  /\ Ascending(page.messages)
  /\ page.oldestTimestamp = (IF page.messages = <<>> THEN 0 ELSE page.messages[1].ts)

\* C11: for every page loadMessages returns, hasMore is true exactly when the
\* store holds more than `limit` messages of the room (older than `before`
\* when given), whether the page came from the cache or from the store.
C11_HasMoreMatchesStore ==
  [][\A r \in Rooms, before \in 0..MaxMsgs, limit \in Limits :
       LoadPage(r, before, limit) =>
         (page'.hasMore <=> Len(Matching(r, before)) > limit)]_vars

\* the ids of the messages of a page
MessageIds(q) == {q[i].id : i \in 1..Len(q)}

\* C12: whenever a load without `before` would be served from the cache, the
\* page it returns holds the same messages as the page the store would return
\* for the same request.
C12_CacheAgreesWithStore ==
  \A r \in Rooms :
    CacheHit(r, 0) =>
      MessageIds(CachePage(r, BATCH_SIZE).messages)
        = MessageIds(StorePage(r, 0, BATCH_SIZE).messages)

----------------------------------------------------------------------------
(* Claims on paging through the history *)

\* C13: one invocation of loadMessagesWithRetry makes at most MAX_RETRIES + 1
\* loadMessages attempts, whatever happens to the retry counter meanwhile.
C13_AttemptsBounded ==
  \A f \in Requests : tries[f] <= MAX_RETRIES + 1

\* C14: in the step in which loadMessagesWithRetry returns a result (the
\* request gets previousMessagesLoaded), the retry counter is absent from the
\* store, however many attempts failed before.
C14_CounterClearedOnSuccess ==
  [][\A f \in Requests : loaded'[f] > loaded[f] => ~retry'.present]_vars

C16_TimeoutDistinguished ==
  \A f \in Requests :
    (fpc[f] = "done" /\ errors[f] > 0) =>
      /\ kinds[f] = {"timeout"} => errmsg[f] = ErrorMessage("timeout")
      /\ kinds[f] = {"other"} => errmsg[f] # ErrorMessage("timeout")

\* C17: a request that arrives while another request for the same room and
\* identity is in flight is dropped: it starts no load and gets no event.
C17_SecondRequestDropped ==
  \A f \in Requests :
    during[f] => (tries[f] = 0 /\ loaded[f] = 0 /\ errors[f] = 0)

----------------------------------------------------------------------------
(* Claims on sending *)

\* C18: a send to a room of which the identity is not a member is refused
\* at its arrival: the step persists nothing, leaves the recent-message cache
\* and the broadcasts of every room as they were, starts no assistant reply,
\* leaves no handler running, and emits one `error` to the sending
\* connection and nothing to any other.
C18_NonMemberSendRefused ==
  [][\A h \in Handlers, s \in SocketIds, r \in Rooms :
       (/\ ~participants[r]
        /\ \E m \in Sends : ChatMessage(h, s, r, m.type, m.content))
       => /\ direct' = EmitSocket(direct, s, "error")
          /\ cpc'[h] = "idle"
          /\ UNCHANGED <<msgs, cache, bcast, streaming, announced>>]_vars

C18_Witness ==
  /\ refused = [sock |-> FetchSocket, room |-> FetchRoom]
  /\ direct[FetchSocket]["error"] = 1
  /\ ~participants[FetchRoom]
  /\ Len(msgs) = 2
  /\ cache[FetchRoom].present
  /\ bcast[FetchRoom]["message"] = 2
  /\ \A h \in Handlers : cpc[h] = "idle"

\* the content without the mentions of either assistant
Stripped(content) == Query(Query(content, "wayneAI"), "consultingAI")

\* C19: no text message is persisted whose content is empty once it is
\* trimmed and the assistant mentions are removed from it.
C19_EmptyTextIsNoOp ==
  \A i \in 1..Len(msgs) : msgs[i].kind = "text" => Stripped(msgs[i].content) # <<>>

\* C20: every _id carried by a `message` broadcast (a sent message, the
\* system message of a join, a leave or a disconnect) or by an
\* aiMessageComplete broadcast is the _id of a document in the collection.
C20_PersistedBeforeBroadcast ==
  announced \subseteq {msgs[i].id : i \in 1..Len(msgs)}

C20_Witness ==
  /\ \E i \in announced, j \in announced, k \in announced :
       msgs[i].kind = "system" /\ msgs[j].kind = "text" /\ msgs[k].kind = "ai"
  /\ bcast[FetchRoom]["aiMessageComplete"] = 1
  /\ announced = 1..Len(msgs)

\* C21: the `message` broadcasts of the sent messages of a room are issued in
\* the order in which the messages were persisted: a message saved earlier is
\* never broadcast after a message of the same room saved later.
C21_BroadcastInPersistOrder ==
  \A i \in 1..Len(emitted), j \in 1..Len(emitted) :
    (i < j /\ msgs[emitted[i]].room = msgs[emitted[j]].room)
      => emitted[i] < emitted[j]

\* C22: the cached list of a room never holds more than RECENT_MESSAGE_CACHE
\* messages, and when a message is appended to a full list the entries that
\* leave the list are older than every entry that stays.
C22_CacheBoundedOldestEvicted ==
  [][\A r \in Rooms :
       /\ Len(cache'[r].list) <= RECENT_MESSAGE_CACHE
       /\ (Len(CachedMessages(r)) = RECENT_MESSAGE_CACHE /\ Len(msgs') > Len(msgs))
            => LET kept == MessageIds(cache'[r].list)
                   dropped == MessageIds(cache[r].list) \ kept
               IN \A d \in dropped, k \in kept : d < k]_vars

----------------------------------------------------------------------------
(* Claims on the assistant's reply *)

\* the concatenation of the fragments of the first n chunk events
RECURSIVE Fragments_upto(_, _)
Fragments_upto(chunks, n) ==
  IF n = 0 THEN <<>> ELSE Append(Fragments_upto(chunks, n - 1), chunks[n].currentChunk)

Terminal == {"aiMessageComplete", "aiMessageError"}

C24_OneTerminalEvent ==
  \A h \in Handlers :
    Cardinality({i \in 1..Len(reply[h].events) : reply[h].events[i] \in Terminal}) <= 1

\* C25: at every broadcast of aiMessageError for a reply, no message of the
\* reply is in the collection or in the cached list and the reply's
\* streamingSession key is absent.
C25_ErrorLeavesNothing ==
  [][\A h \in Handlers :
       (/\ Len(reply'[h].events) > Len(reply[h].events)
        /\ reply'[h].events[Len(reply'[h].events)] = "aiMessageError")
       => /\ reply'[h].saved = 0
          /\ ~sbuf'[h].present]_vars

\* C26: a streamingSession key that exists carries a time to live of at
\* most 600 seconds: whichever write created or updated it, the key is due
\* to disappear without any further callback.
C26_BufferAlwaysExpires ==
  \A h \in Handlers :
    sbuf[h].present => (sbuf[h].ttl > 0 /\ sbuf[h].ttl <= 600 /\ ENABLED BufferExpire(h))

C26_Witness ==
  /\ sbuf["c1"].present
  /\ sbuf["c1"].content = <<"re", "ply">>
  /\ cpc["c1"] = "a_generate"

----------------------------------------------------------------------------
(* Claims on read receipts and reactions *)

\* C27: on the reactions of every stored message, adding a label for an
\* identity twice gives the map that adding it once gives, with the identity
\* once in the label's list, and removing a label the identity does not hold
\* gives the map back unchanged.
C27_ReactionIdempotent ==
  \A i \in 1..Len(msgs), emoji \in Emojis, u \in Users :
    LET x == msgs[i].reactions
        once == addReaction(x, emoji, u)
    IN /\ addReaction(once, emoji, u) = once
       /\ Cardinality({j \in 1..Len(once[emoji]) : IdString(once[emoji][j]) = u}) = 1
       /\ ~Includes(x[emoji], u) => removeReaction(x, emoji, u) = x

C27_Witness ==
  /\ Len(msgs) = 1
  /\ msgs[1].reactions["like"] = <<ObjectId("u1"), ObjectId("u2")>>
  /\ msgs[1].reactions["wow"] = <<>>
  /\ bcast[FetchRoom]["messageReactionUpdate"] = 3
  /\ \A k \in Reactors : kpc[k] = "idle"

\* C28: the readers array of every stored message lists an identity at most
\* once, whatever markMessagesAsRead calls and history loads have run, and in
\* whatever order the store has applied their updates.
C28_ReadOnce ==
  \A i \in 1..Len(msgs), u \in Users :
    Cardinality({k \in 1..Len(msgs[i].readers) : msgs[i].readers[k] = ObjectId(u)}) <= 1

C28_Witness ==
  /\ Len(msgs) = 2
  /\ msgs[1].readers = <<ObjectId("u2"), ObjectId("u1")>>
  /\ msgs[2].readers = <<ObjectId("u1")>>
  /\ reads = {}
  /\ bcast[FetchRoom]["messagesRead"] = 2

\* C29: a markMessagesAsRead call with a non-empty id list whose store
\* update has succeeded ends with messagesRead broadcast to the room and no
\* `error` to its connection, whatever the cached list of the room holds.
C29_PatchIsBestEffort ==
  [][\A m \in Marks :
       (mpc[m] = "m_patch" /\ mpc'[m] = "idle")
       => /\ bcast' = EmitRoom(bcast, mroom[m], {"messagesRead"})
          /\ direct' = direct]_vars

\* C30: once the handlers that changed a member list (HTTP join, socket join,
\* leave, removal on disconnect) have finished, no room-list cache entry
\* written before the change is left in the store, so no listing is answered
\* from a list older than the member lists.
C30_NoOutdatedRoomList ==
  Quiescent => outdated = {}

----------------------------------------------------------------------------
(* Claims on teardown, failures and concurrent handlers *)

\* every connection made has closed (or was refused) and no middleware,
\* connection block, takeover timer, room handler or disconnect handler of
\* any of them has a step left
Settled ==
  /\ \A s \in SocketIds :
       /\ st[s] \in {"none", "closed", "refused"}
       /\ pc[s] \in {"idle", "done", "ready"}
       /\ dpc[s] \in {"idle", "done"}
       /\ hpc[s] = "idle"
  /\ timers = {}

\* C31: once every connection of the identity has closed and its handlers
\* have finished, neither connectedUser:<id> nor userRoom:<id> is in the
\* store. Neither key is written with an expiry, so what a settled state
\* holds stays until another connection of the identity changes it.
C31_RecordsDoNotOutlive ==
  Settled => (connectedUser = NoKey /\ userRoom = NoKey)

\* C32: no store call of a connection's handlers (the detached presence
\* block of the connection and the timer that releases the in-flight guard
\* included) fails without a handler that catches the failure.
C32_NoUnhandledFailure ==
  unhandled = FALSE

\* C33: on every backing the wrapper's setEx, get, del and keys do what the
\* primitives are defined to do: the keys held and the result of the last
\* call are those of a store in which setEx stores, del removes exactly the
\* keys given and keys returns every matching key.
C33_BackingsAgree ==
  /\ redisClient.store = redisClient.ideal
  /\ redisClient.result = redisClient.want

\* C34: once a reply has had its terminal event and no call of onChunk,
\* onComplete, onError or the catch block of the reply is left running, the
\* store holds no streamingSession key of the reply.
C34_NoBufferAfterTerminal ==
  \A h \in Handlers :
    (/\ \E i \in 1..Len(reply[h].events) : reply[h].events[i] \in Terminal
     /\ csess[h] = NoSession
     /\ cpc[h] = "c_activity")
    => ~sbuf[h].present

\* C35: a fetchPreviousMessages request that returns because it found the
\* messageQueue key leaves the key as it is and schedules no deletion of it.
C35_DroppedLeavesGuard ==
  [][\A f \in Requests :
       (fpc[f] = "f_guard" /\ loading /\ fpc'[f] = "done")
       => (loading' = loading /\ unlock' = unlock)]_vars

\* C36: when no handler is between its read and its write of the cached list,
\* every sent message that was broadcast is in the cached list of its room
\* (a list that is present and has not reached RECENT_MESSAGE_CACHE entries).
C36_NoAppendLost ==
  (\A h \in Handlers : cpc[h] \notin {"c_set", "a_set"})
  => \A i \in 1..Len(emitted) :
       LET r == msgs[emitted[i]].room
       IN (cache[r].present /\ Len(cache[r].list) < RECENT_MESSAGE_CACHE)
            => emitted[i] \in MessageIds(cache[r].list)

\* C37: the disconnect handler of a connection that a duplicate-login
\* takeover closed persists no message, removes the identity from no member
\* list and broadcasts nothing.
C37_TakeoverSkipsAutoLeave ==
  [][\A s \in SocketIds :
       (ended'[s] /\ dreason'[s] = ServerReason /\ dpc'[s] # dpc[s])
       => (msgs' = msgs /\ participants' = participants /\ bcast' = bcast)]_vars

\* C38: no step of the disconnect handling of an older connection deletes the
\* occupancy record that the join of a newer connection wrote, nor removes
\* the identity from the member list of the room the newer connection joined.
C38_TeardownSparesNewerJoin ==
  [][\A s \in SocketIds, n \in SocketIds :
       (/\ born[n] > born[s]
        /\ ended[s]
        /\ dpc'[s] # dpc[s]
        /\ hpc[s] = "idle"
        /\ hpc[n] \in {"j_save", "j_load"}
        /\ userRoom = RedisSet(hroom[n]))
       => (/\ userRoom' = userRoom
           /\ participants'[hroom[n]] = participants[hroom[n]])]_vars

\* C39: a joinRoom call of an open connection that ends with joinRoomError
\* leaves the occupancy record as the call read it and leaves no message of
\* its own in the collection.
C39_JoinErrorLeavesState ==
  [][\A s \in SocketIds :
       (/\ st[s] = "open"
        /\ dpc[s] = "idle"
        /\ hpc[s] \in {"j_update", "j_load"}
        /\ direct'[s]["joinRoomError"] > direct[s]["joinRoomError"])
       => (/\ RedisGet(userRoom') = hcur[s]
           /\ hpc[s] = "j_load" => \A i \in 1..Len(msgs') : msgs'[i].id # hmsg[s])]_vars

============================================================================
